---------------------------- MODULE Spec2Model ----------------------------
(***************************************************************************)
(* A model of the two terminal widgets of pi-lib:                          *)
(*                                                                         *)
(*   OrderedMultiSelect  (components/ordered-multi-select)                 *)
(*   SettingsList        (components/settings-list)                        *)
(*                                                                         *)
(* Strings of the program are sequences of one-character strings, so that  *)
(* split/trim/join and the text editor's insertions are computed and not   *)
(* assumed.  A nullable object reference is a sequence of length 0 (null)  *)
(* or 1; a nullable index is -1 when null.                                 *)
(***************************************************************************)
EXTENDS Integers, Sequences, FiniteSets, TLC

VARIABLES
    \* ---- SettingsList fields
    items,              \* SettingItem[]: id, label, currentValue, values, submenu
    filteredItems,      \* SettingItem[] as indices into items (object references)
    selectedIndex,
    maxVisible,         \* number of rows renderMainList shows at most
    searchEnabled,
    searchInput,        \* the search Input (value, cursor)
    submenuComponent,   \* Component | null
    submenuItemIndex,   \* number | null
    submenuItem,        \* the item captured by the submenu's done closure
    editingInput,       \* Input | null
    editingItemIndex,   \* number | null
    \* ---- a stand-alone OrderedMultiSelect and its done callback
    oms,
    omsDone,
    omsHist,            \* what the stand-alone widget was built from and went through
    \* ---- the settings extension and the settings store
    registry,           \* Map<string, SettingDefinition[]> of the loaded extension
    announced,          \* the scopes announced so far, by when and where
    file,               \* settings-extensions.json
    store,              \* the typed store: its schema and its last write
    io,                 \* the last call of the store or the command and its result
    \* ---- observation of the last operation
    calls,              \* callbacks invoked by the last operation, in order
    lastOp,             \* the last operation and the sub-state it was given in
    typed,              \* characters typed since the editor was opened
    snap,               \* currentValues and selectedIndex when a sub-state was entered
    run,                \* consecutive activations of one cycling item
    activated,          \* the item whose editor or submenu was opened, 0 when none is open
    window              \* the rows last rendered and the selection they were rendered for

vars == <<items, filteredItems, selectedIndex, searchEnabled, searchInput,
          submenuComponent, submenuItemIndex, submenuItem, editingInput,
          editingItemIndex, oms, omsDone, omsHist, registry, announced, file,
          store, io, calls, lastOp, typed, snap, run, activated, maxVisible, window>>

slVars == <<items, filteredItems, selectedIndex, searchEnabled, searchInput,
            submenuComponent, submenuItemIndex, submenuItem, editingInput,
            editingItemIndex, snap, typed, run, activated, maxVisible, window>>

omsVars == <<oms, omsDone, omsHist>>

extVars == <<registry, announced, file, store, io>>

-----------------------------------------------------------------------------
(* Bounds of the model *)

\* longest initial value string given to a stand-alone OrderedMultiSelect
MaxSeedLen == 3
\* longest text held by an Input (the inline editor or the search box)
MaxText == 2
\* how far cursorIndex may leave the displayed range before the model stops
CursorSlack == 1
\* longest values list of a cycling item
MaxValues == 3
\* most rows of a list that is rendered, and largest maxVisible it is given
MaxRows == 5
MaxWindow == 6

-----------------------------------------------------------------------------
(* Strings *)

Null == <<>>
Some(x) == <<x>>
NullIndex == 0 - 1

Min(a, b) == IF a < b THEN a ELSE b

\* all sequences over S of length at most n
SeqsUpTo(S, n) == UNION {[1..k -> S] : k \in 0..n}

\* Array.prototype.indexOf, 0-based, -1 when absent
IndexOf(seq, x) ==
    IF \E i \in 1..Len(seq) : seq[i] = x
    THEN (CHOOSE i \in 1..Len(seq) : seq[i] = x /\ \A j \in 1..(i - 1) : seq[j] # x) - 1
    ELSE 0 - 1

Includes(seq, x) == \E i \in 1..Len(seq) : seq[i] = x

RECURSIVE SplitFrom(_, _, _)
\* String.prototype.split(sep) for a one-character separator: cur is the
\* piece being read, s what is left to read
SplitFrom(s, sep, cur) ==
    IF s = <<>> THEN <<cur>>
    ELSE IF Head(s) = sep THEN <<cur>> \o SplitFrom(Tail(s), sep, <<>>)
    ELSE SplitFrom(Tail(s), sep, Append(cur, Head(s)))

Split(s, sep) == SplitFrom(s, sep, <<>>)

RECURSIVE TrimStart(_)
TrimStart(s) == IF s # <<>> /\ Head(s) = " " THEN TrimStart(Tail(s)) ELSE s

RECURSIVE TrimEnd(_)
TrimEnd(s) ==
    IF s # <<>> /\ s[Len(s)] = " " THEN TrimEnd(SubSeq(s, 1, Len(s) - 1)) ELSE s

\* String.prototype.trim
Trim(s) == TrimEnd(TrimStart(s))

RECURSIVE Join(_, _)
\* Array.prototype.join(sep)
Join(parts, sep) ==
    IF parts = <<>> THEN <<>>
    ELSE IF Len(parts) = 1 THEN parts[1]
    ELSE parts[1] \o <<sep>> \o Join(Tail(parts), sep)

\* parts.map((s) => s.trim())
TrimAll(parts) == [i \in 1..Len(parts) |-> Trim(parts[i])]

NonEmpty(s) == s # <<>>

-----------------------------------------------------------------------------
(* Input tokens and the keybinding resolver *)

\* tokens that are printable text: a letter, a space, and a pasted "a "
Printable == {"a", " ", "a "}
Tokens == {"up", "down", "enter", "escape", "shift+up", "shift+down",
           "backspace", "f5"} \cup Printable

\* getEditorKeybindings().matches(data, action), default bindings
KbMatches(data, action) ==
    CASE action = "selectUp"      -> data = "up"
      [] action = "selectDown"    -> data = "down"
      [] action = "selectConfirm" -> data = "enter"
      [] action = "selectCancel"  -> data = "escape"
      [] OTHER                    -> FALSE

\* matchesKey(data, key)
MatchesKey(data, key) ==
    IF key = "space" THEN data = " " ELSE data = key

-----------------------------------------------------------------------------
(* The single-line text editor, Input *)

InputNew == [value |-> <<>>, cursor |-> 0]

InputSetValue(inp, v) == [value |-> v, cursor |-> Min(inp.cursor, Len(v))]

InputGetValue(inp) == inp.value

\* the characters of a token that is printable text
CharsOf(data) ==
    IF data = "a " THEN <<"a", " ">>
    ELSE IF data \in Printable THEN <<data>>
    ELSE <<>>

\* printable text is inserted at the cursor
InputInsert(inp, chars) ==
    [value  |-> SubSeq(inp.value, 1, inp.cursor) \o chars
                 \o SubSeq(inp.value, inp.cursor + 1, Len(inp.value)),
     cursor |-> inp.cursor + Len(chars)]

\* Input.handleInput: backspace deletes before the cursor, printable text is
\* inserted, any other key leaves the value alone
InputHandleInput(inp, data) ==
    IF data = "backspace" THEN
        IF inp.cursor > 0
        THEN [value  |-> SubSeq(inp.value, 1, inp.cursor - 1)
                          \o SubSeq(inp.value, inp.cursor + 1, Len(inp.value)),
              cursor |-> inp.cursor - 1]
        ELSE inp
    ELSE IF data \in Printable THEN InputInsert(inp, CharsOf(data))
    ELSE inp

-----------------------------------------------------------------------------
(* OrderedMultiSelect *)

\* the done callback's argument: not called, called with a string, or
\* called with undefined
NotDone == <<>>
DoneWith(v) == <<[defined |-> TRUE, value |-> v]>>
DoneUndefined == <<[defined |-> FALSE, value |-> <<>>]>>

OrderedMultiSelectNew(options, currentValue) ==
    [options     |-> options,
     selected    |-> SelectSeq(TrimAll(Split(currentValue, ",")), NonEmpty),
     cursorIndex |-> 0]

FindOption(options, id) ==
    IF \E i \in 1..Len(options) : options[i].id = id
    THEN Some(options[CHOOSE i \in 1..Len(options) :
                 options[i].id = id /\ \A j \in 1..(i - 1) : options[j].id # id])
    ELSE Null

RECURSIVE SelectedDisplay(_, _, _)
\* the first loop of buildDisplayItems, from position i on
SelectedDisplay(options, selected, i) ==
    IF i > Len(selected) THEN <<>>
    ELSE LET option == FindOption(options, selected[i])
         IN  (IF option # Null
              THEN <<[option |-> option[1], selected |-> TRUE, position |-> i]>>
              ELSE <<>>)
             \o SelectedDisplay(options, selected, i + 1)

RECURSIVE UnselectedDisplay(_, _)
\* the second loop of buildDisplayItems
UnselectedDisplay(options, selected) ==
    IF options = <<>> THEN <<>>
    ELSE (IF ~Includes(selected, Head(options).id)
          THEN <<[option |-> Head(options), selected |-> FALSE, position |-> 0]>>
          ELSE <<>>)
         \o UnselectedDisplay(Tail(options), selected)

\* buildDisplayItems numbering the selected rows 1, 2, ... as displayed
buildDisplayItemsCounted(w) ==
    LET sel == SelectedDisplay(w.options, w.selected, 1) IN
    [n \in 1..Len(sel) |-> [sel[n] EXCEPT !.position = n]]
        \o UnselectedDisplay(w.options, w.selected)

buildDisplayItems(w) ==
    SelectedDisplay(w.options, w.selected, 1) \o UnselectedDisplay(w.options, w.selected)

\* items[this.cursorIndex]: undefined outside the array
ItemAtCursor(w, its) ==
    IF w.cursorIndex >= 0 /\ w.cursorIndex < Len(its)
    THEN Some(its[w.cursorIndex + 1]) ELSE Null

\* toggleCurrent selecting an option by its label instead of its id
toggleCurrentPushesLabel(w, its) ==
    LET item == ItemAtCursor(w, its) IN
    IF item = Null THEN w
    ELSE LET id == item[1].option.id IN
         IF item[1].selected
         THEN [w EXCEPT !.selected = SelectSeq(w.selected, LAMBDA s : s # id)]
         ELSE [w EXCEPT !.selected = Append(w.selected, item[1].option.label)]

\* toggleCurrent putting a newly selected id in front
toggleCurrentPrepends(w, its) ==
    LET item == ItemAtCursor(w, its) IN
    IF item = Null THEN w
    ELSE LET id == item[1].option.id IN
         IF item[1].selected
         THEN [w EXCEPT !.selected = SelectSeq(w.selected, LAMBDA s : s # id)]
         ELSE [w EXCEPT !.selected = <<id>> \o w.selected]

\* toggleCurrent putting a newly selected id where its option is declared
toggleCurrentReinserts(w, its) ==
    LET item == ItemAtCursor(w, its) IN
    IF item = Null THEN w
    ELSE LET id == item[1].option.id
             m  == Min(IndexOf([i \in 1..Len(w.options) |-> w.options[i].id], id),
                       Len(w.selected))
         IN
         IF item[1].selected
         THEN [w EXCEPT !.selected = SelectSeq(w.selected, LAMBDA s : s # id)]
         ELSE [w EXCEPT !.selected = SubSeq(w.selected, 1, m) \o <<id>>
                                      \o SubSeq(w.selected, m + 1, Len(w.selected))]

toggleCurrent(w, its) ==
    LET item == ItemAtCursor(w, its) IN
    IF item = Null THEN w
    ELSE LET id == item[1].option.id IN
         IF item[1].selected
         THEN [w EXCEPT !.selected = SelectSeq(w.selected, LAMBDA s : s # id)]
         ELSE [w EXCEPT !.selected = Append(w.selected, id)]

Swap(seq, i, j) == [seq EXCEPT ![i] = seq[j], ![j] = seq[i]]

\* moveUp moving the id to the front of selected
moveUpToFront(w, its) ==
    LET item == ItemAtCursor(w, its) IN
    IF item = Null \/ ~item[1].selected THEN w
    ELSE LET id  == item[1].option.id
             idx == IndexOf(w.selected, id) IN
         IF idx <= 0 THEN w
         ELSE [w EXCEPT !.selected = <<id>> \o SelectSeq(w.selected, LAMBDA s : s # id),
                        !.cursorIndex = w.cursorIndex - 1]

moveUp(w, its) ==
    LET item == ItemAtCursor(w, its) IN
    IF item = Null \/ ~item[1].selected THEN w
    ELSE LET idx == IndexOf(w.selected, item[1].option.id) IN
         IF idx <= 0 THEN w
         ELSE [w EXCEPT !.selected = Swap(w.selected, idx, idx + 1),
                        !.cursorIndex = w.cursorIndex - 1]

moveDown(w, its) ==
    LET item == ItemAtCursor(w, its) IN
    IF item = Null \/ ~item[1].selected THEN w
    ELSE LET idx == IndexOf(w.selected, item[1].option.id) IN
         IF idx < 0 \/ idx >= Len(w.selected) - 1 THEN w
         ELSE [w EXCEPT !.selected = Swap(w.selected, idx + 1, idx + 2),
                        !.cursorIndex = w.cursorIndex + 1]

\* ConfirmValue joining the ids with a space
ConfirmValueSpaced(w) == Join(w.selected, " ")

\* ConfirmValue leaving out the ids that match no option
ConfirmValueDisplayed(w) ==
    Join(SelectSeq(w.selected, LAMBDA id : FindOption(w.options, id) # Null), ",")

\* this.selected.join(",")
ConfirmValue(w) == Join(w.selected, ",")

\* OMSHandleInput ignoring every token when there is nothing to display
OMSHandleInputDeafWhenEmpty(w, data) ==
    LET its == buildDisplayItems(w) IN
    IF Len(its) = 0 THEN [w |-> w, done |-> NotDone]
    ELSE IF KbMatches(data, "selectUp") \/ MatchesKey(data, "up") THEN
        [w |-> [w EXCEPT !.cursorIndex =
                    IF w.cursorIndex = 0 THEN Len(its) - 1 ELSE w.cursorIndex - 1],
         done |-> NotDone]
    ELSE IF KbMatches(data, "selectDown") \/ MatchesKey(data, "down") THEN
        [w |-> [w EXCEPT !.cursorIndex =
                    IF w.cursorIndex = Len(its) - 1 THEN 0 ELSE w.cursorIndex + 1],
         done |-> NotDone]
    ELSE IF data = " " \/ MatchesKey(data, "space") THEN
        [w |-> toggleCurrent(w, its), done |-> NotDone]
    ELSE IF MatchesKey(data, "shift+up") THEN
        [w |-> moveUp(w, its), done |-> NotDone]
    ELSE IF MatchesKey(data, "shift+down") THEN
        [w |-> moveDown(w, its), done |-> NotDone]
    ELSE IF KbMatches(data, "selectConfirm") THEN
        [w |-> w, done |-> DoneWith(ConfirmValue(w))]
    ELSE IF KbMatches(data, "selectCancel") THEN
        [w |-> w, done |-> DoneUndefined]
    ELSE [w |-> w, done |-> NotDone]

\* OrderedMultiSelect.handleInput: the widget afterwards and what done received
OMSHandleInput(w, data) ==
    LET its == buildDisplayItems(w) IN
    IF Len(its) = 0 THEN
        [w |-> w, done |-> IF KbMatches(data, "selectCancel") THEN DoneUndefined ELSE NotDone]
    ELSE IF KbMatches(data, "selectUp") \/ MatchesKey(data, "up") THEN
        [w |-> [w EXCEPT !.cursorIndex =
                    IF w.cursorIndex = 0 THEN Len(its) - 1 ELSE w.cursorIndex - 1],
         done |-> NotDone]
    ELSE IF KbMatches(data, "selectDown") \/ MatchesKey(data, "down") THEN
        [w |-> [w EXCEPT !.cursorIndex =
                    IF w.cursorIndex = Len(its) - 1 THEN 0 ELSE w.cursorIndex + 1],
         done |-> NotDone]
    ELSE IF data = " " \/ MatchesKey(data, "space") THEN
        [w |-> toggleCurrent(w, its), done |-> NotDone]
    ELSE IF MatchesKey(data, "shift+up") THEN
        [w |-> moveUp(w, its), done |-> NotDone]
    ELSE IF MatchesKey(data, "shift+down") THEN
        [w |-> moveDown(w, its), done |-> NotDone]
    ELSE IF KbMatches(data, "selectConfirm") THEN
        [w |-> w, done |-> DoneWith(ConfirmValue(w))]
    ELSE IF KbMatches(data, "selectCancel") THEN
        [w |-> w, done |-> DoneUndefined]
    ELSE [w |-> w, done |-> NotDone]

\* the model follows cursorIndex only this far outside the displayed range
CursorTracked(w) ==
    /\ w.cursorIndex >= 0 - CursorSlack
    /\ w.cursorIndex <= Len(buildDisplayItems(w)) + CursorSlack


-----------------------------------------------------------------------------
(* SettingsList *)

OnChange(id, v) == [cb |-> "onChange", id |-> id, value |-> v]
OnCancel == [cb |-> "onCancel", id |-> "", value |-> <<>>]

\* true when the characters of q occur in label in this order
RECURSIVE IsSubsequence(_, _)
IsSubsequence(q, label) ==
    IF q = <<>> THEN TRUE
    ELSE IF label = <<>> THEN FALSE
    ELSE IF Head(q) = Head(label) THEN IsSubsequence(Tail(q), Tail(label))
    ELSE IsSubsequence(q, Tail(label))

RECURSIVE FilterFrom(_, _, _)
FilterFrom(its, query, i) ==
    IF i > Len(its) THEN <<>>
    ELSE (IF IsSubsequence(query, its[i].label) THEN <<i>> ELSE <<>>)
         \o FilterFrom(its, query, i + 1)

\* fuzzyFilter(items, query, item => item.label): the matching items, as
\* references into items; an empty query matches every item
fuzzyFilter(its, query) ==
    IF Trim(query) = <<>> THEN [i \in 1..Len(its) |-> i]
    ELSE FilterFrom(its, query, 1)

\* the submenu factory of an item backed by an ordered multi-select
Submenu(item, currentValue) == OrderedMultiSelectNew(item.submenu[1], currentValue)

\* const displayItems = this.searchEnabled ? this.filteredItems : this.items
displayItems == IF searchEnabled THEN filteredItems ELSE [i \in 1..Len(items) |-> i]

\* displayItems[index]: the item (its place in items), or undefined
DisplayedAt(index) ==
    IF index >= 0 /\ index < Len(displayItems)
    THEN Some(displayItems[index + 1]) ELSE Null

\* this.items.find((i) => i.id === id)
FindItem(id) ==
    IF \E k \in 1..Len(items) : items[k].id = id
    THEN Some(CHOOSE k \in 1..Len(items) :
                 items[k].id = id /\ \A j \in 1..(k - 1) : items[j].id # id)
    ELSE Null

\* CycleValue stopping at the last value instead of wrapping
CycleValueNoWrap(values, currentValue) ==
    values[Min(IndexOf(values, currentValue) + 1, Len(values) - 1) + 1]

\* CycleValue looking the current value up from the end of the list
CycleValueLastIndexOf(values, currentValue) ==
    LET last == IF Includes(values, currentValue)
                THEN (CHOOSE i \in 1..Len(values) :
                         values[i] = currentValue
                         /\ \A j \in (i + 1)..Len(values) : values[j] # currentValue) - 1
                ELSE Len(values) - 1
    IN  values[((last + 1) % Len(values)) + 1]

\* item.values[(item.values.indexOf(item.currentValue) + 1) % item.values.length]
CycleValue(values, currentValue) ==
    values[((IndexOf(values, currentValue) + 1) % Len(values)) + 1]

\* updateValue reporting the new value through onChange
updateValueNotifies(id, newValue) ==
    LET item == FindItem(id) IN
    /\ items' = IF item # Null
                THEN [items EXCEPT ![item[1]].currentValue = newValue]
                ELSE items
    /\ calls' = IF item # Null THEN <<OnChange(id, newValue)>> ELSE <<>>
    /\ UNCHANGED <<filteredItems, selectedIndex, searchEnabled, searchInput,
                   submenuComponent, submenuItemIndex, submenuItem,
                   editingInput, editingItemIndex>>

updateValue(id, newValue) ==
    LET item == FindItem(id) IN
    /\ items' = IF item # Null
                THEN [items EXCEPT ![item[1]].currentValue = newValue]
                ELSE items
    /\ calls' = <<>>
    /\ UNCHANGED <<filteredItems, selectedIndex, searchEnabled, searchInput,
                   submenuComponent, submenuItemIndex, submenuItem,
                   editingInput, editingItemIndex>>

closeSubmenu ==
    /\ submenuComponent' = Null
    /\ submenuItem' = 0
    /\ IF submenuItemIndex # NullIndex
       THEN selectedIndex' = submenuItemIndex /\ submenuItemIndex' = NullIndex
       ELSE UNCHANGED <<selectedIndex, submenuItemIndex>>

\* SubmenuDone testing the value for truthiness: "" counts as no value
SubmenuDoneTruthy(selectedValue) ==
    /\ IF selectedValue[1].defined /\ selectedValue[1].value # <<>>
       THEN /\ items' = [items EXCEPT ![submenuItem].currentValue = selectedValue[1].value]
            /\ calls' = <<OnChange(items[submenuItem].id, selectedValue[1].value)>>
       ELSE /\ items' = items
            /\ calls' = <<>>
    /\ closeSubmenu
    /\ UNCHANGED <<filteredItems, searchEnabled, searchInput, editingInput,
                   editingItemIndex>>

\* SubmenuDone without the test for undefined
SubmenuDoneUnchecked(selectedValue) ==
    /\ items' = [items EXCEPT ![submenuItem].currentValue = selectedValue[1].value]
    /\ calls' = <<OnChange(items[submenuItem].id, selectedValue[1].value)>>
    /\ closeSubmenu
    /\ UNCHANGED <<filteredItems, searchEnabled, searchInput, editingInput,
                   editingItemIndex>>

\* SubmenuDone taking the item at selectedIndex of items instead of the
\* item its closure captured
SubmenuDoneByIndex(selectedValue) ==
    /\ IF selectedValue[1].defined
       THEN /\ items' = [items EXCEPT ![selectedIndex + 1].currentValue = selectedValue[1].value]
            /\ calls' = <<OnChange(items[selectedIndex + 1].id, selectedValue[1].value)>>
       ELSE /\ items' = items
            /\ calls' = <<>>
    /\ closeSubmenu
    /\ UNCHANGED <<filteredItems, searchEnabled, searchInput, editingInput,
                   editingItemIndex>>

\* the done callback handed to item.submenu by activateItem
SubmenuDone(selectedValue) ==
    /\ IF selectedValue[1].defined
       THEN /\ items' = [items EXCEPT ![submenuItem].currentValue = selectedValue[1].value]
            /\ calls' = <<OnChange(items[submenuItem].id, selectedValue[1].value)>>
       ELSE /\ items' = items
            /\ calls' = <<>>
    /\ closeSubmenu
    /\ UNCHANGED <<filteredItems, searchEnabled, searchInput, editingInput,
                   editingItemIndex>>

activateItem ==
    LET item == DisplayedAt(selectedIndex) IN
    IF item = Null THEN
        /\ calls' = <<>>
        /\ UNCHANGED <<items, filteredItems, selectedIndex, searchEnabled, searchInput,
                       submenuComponent, submenuItemIndex, submenuItem,
                       editingInput, editingItemIndex>>
    ELSE IF items[item[1]].submenu # Null THEN
        /\ submenuItemIndex' = selectedIndex
        /\ submenuComponent' = Some(Submenu(items[item[1]], items[item[1]].currentValue))
        /\ submenuItem' = item[1]
        /\ calls' = <<>>
        /\ UNCHANGED <<items, filteredItems, selectedIndex, searchEnabled, searchInput,
                       editingInput, editingItemIndex>>
    ELSE IF Len(items[item[1]].values) > 0 THEN
        LET newValue == CycleValue(items[item[1]].values, items[item[1]].currentValue) IN
        /\ items' = [items EXCEPT ![item[1]].currentValue = newValue]
        /\ calls' = <<OnChange(items[item[1]].id, newValue)>>
        /\ UNCHANGED <<filteredItems, selectedIndex, searchEnabled, searchInput,
                       submenuComponent, submenuItemIndex, submenuItem,
                       editingInput, editingItemIndex>>
    ELSE
        /\ editingItemIndex' = selectedIndex
        /\ editingInput' = Some(InputSetValue(InputNew, items[item[1]].currentValue))
        /\ calls' = <<>>
        /\ UNCHANGED <<items, filteredItems, selectedIndex, searchEnabled, searchInput,
                       submenuComponent, submenuItemIndex, submenuItem>>

\* confirmEdit reporting the value without storing it in the item
confirmEditReportsOnly ==
    LET item == DisplayedAt(editingItemIndex) IN
    /\ items' = items
    /\ calls' = IF item # Null
                THEN <<OnChange(items[item[1]].id, InputGetValue(editingInput[1]))>>
                ELSE <<>>
    /\ editingInput' = Null
    /\ editingItemIndex' = NullIndex
    /\ UNCHANGED <<filteredItems, selectedIndex, searchEnabled, searchInput,
                   submenuComponent, submenuItemIndex, submenuItem>>

\* confirmEdit leaving the editor open
confirmEditStaysOpen ==
    LET item == DisplayedAt(editingItemIndex) IN
    /\ IF item # Null
       THEN LET newValue == InputGetValue(editingInput[1]) IN
            /\ items' = [items EXCEPT ![item[1]].currentValue = newValue]
            /\ calls' = <<OnChange(items[item[1]].id, newValue)>>
       ELSE /\ items' = items
            /\ calls' = <<>>
    /\ UNCHANGED <<filteredItems, selectedIndex, searchEnabled, searchInput,
                   submenuComponent, submenuItemIndex, submenuItem,
                   editingInput, editingItemIndex>>

confirmEdit ==
    LET item == DisplayedAt(editingItemIndex) IN
    /\ IF item # Null
       THEN LET newValue == InputGetValue(editingInput[1]) IN
            /\ items' = [items EXCEPT ![item[1]].currentValue = newValue]
            /\ calls' = <<OnChange(items[item[1]].id, newValue)>>
       ELSE /\ items' = items
            /\ calls' = <<>>
    /\ editingInput' = Null
    /\ editingItemIndex' = NullIndex
    /\ UNCHANGED <<filteredItems, selectedIndex, searchEnabled, searchInput,
                   submenuComponent, submenuItemIndex, submenuItem>>

\* cancelEdit reporting the edited text through onChange
cancelEditReports ==
    LET item == DisplayedAt(editingItemIndex) IN
    /\ calls' = IF item # Null
                THEN <<OnChange(items[item[1]].id, InputGetValue(editingInput[1]))>>
                ELSE <<>>
    /\ editingInput' = Null
    /\ editingItemIndex' = NullIndex
    /\ UNCHANGED <<items, filteredItems, selectedIndex, searchEnabled, searchInput,
                   submenuComponent, submenuItemIndex, submenuItem>>

\* cancelEdit also closing the list through onCancel
cancelEditCancelsList ==
    /\ editingInput' = Null
    /\ editingItemIndex' = NullIndex
    /\ calls' = <<OnCancel>>
    /\ UNCHANGED <<items, filteredItems, selectedIndex, searchEnabled, searchInput,
                   submenuComponent, submenuItemIndex, submenuItem>>

\* cancelEdit keeping the edited text in the item, without reporting it
cancelEditStoresValue ==
    LET item == DisplayedAt(editingItemIndex) IN
    /\ items' = IF item # Null
                THEN [items EXCEPT ![item[1]].currentValue = InputGetValue(editingInput[1])]
                ELSE items
    /\ editingInput' = Null
    /\ editingItemIndex' = NullIndex
    /\ calls' = <<>>
    /\ UNCHANGED <<filteredItems, selectedIndex, searchEnabled, searchInput,
                   submenuComponent, submenuItemIndex, submenuItem>>

cancelEdit ==
    /\ editingInput' = Null
    /\ editingItemIndex' = NullIndex
    /\ calls' = <<>>
    /\ UNCHANGED <<items, filteredItems, selectedIndex, searchEnabled, searchInput,
                   submenuComponent, submenuItemIndex, submenuItem>>

handleEditingInput(data) ==
    IF MatchesKey(data, "enter") THEN confirmEdit
    ELSE IF MatchesKey(data, "escape") THEN cancelEdit
    ELSE /\ editingInput' = Some(InputHandleInput(editingInput[1], data))
         /\ calls' = <<>>
         /\ UNCHANGED <<items, filteredItems, selectedIndex, searchEnabled, searchInput,
                        submenuComponent, submenuItemIndex, submenuItem, editingItemIndex>>

\* this.submenuComponent.handleInput?.(data), the child calling done or not
SubmenuHandleInput(data) ==
    LET r == OMSHandleInput(submenuComponent[1], data) IN
    IF r.done # NotDone THEN SubmenuDone(r.done)
    ELSE /\ submenuComponent' = Some(r.w)
         /\ calls' = <<>>
         /\ UNCHANGED <<items, filteredItems, selectedIndex, searchEnabled, searchInput,
                        submenuItemIndex, submenuItem, editingInput, editingItemIndex>>

\* applyFilter filtering what the previous query had left
applyFilterNarrowing(query) ==
    /\ filteredItems' = SelectSeq(filteredItems,
                                  LAMBDA k : Includes(fuzzyFilter(items, query), k))
    /\ selectedIndex' = 0

\* applyFilter leaving the selection where it was
applyFilterKeepsSelection(query) ==
    /\ filteredItems' = fuzzyFilter(items, query)
    /\ selectedIndex' = selectedIndex

\* this.filteredItems = fuzzyFilter(...); this.selectedIndex = 0
applyFilter(query) ==
    /\ filteredItems' = fuzzyFilter(items, query)
    /\ selectedIndex' = 0

\* data.replace(/ /g, "") of a printable token
Sanitized(data) == SelectSeq(CharsOf(data), LAMBDA c : c # " ")

\* the last branch of handleInput: the token goes to the search Input
SearchInput(data) ==
    IF data \in Printable /\ Sanitized(data) = <<>> THEN
        /\ calls' = <<>>
        /\ UNCHANGED <<items, filteredItems, selectedIndex, searchEnabled, searchInput,
                       submenuComponent, submenuItemIndex, submenuItem,
                       editingInput, editingItemIndex>>
    ELSE
        /\ searchInput' = Some(IF data \in Printable
                               THEN InputInsert(searchInput[1], Sanitized(data))
                               ELSE InputHandleInput(searchInput[1], data))
        /\ applyFilter(InputGetValue(searchInput'[1]))
        /\ calls' = <<>>
        /\ UNCHANGED <<items, searchEnabled, submenuComponent, submenuItemIndex,
                       submenuItem, editingInput, editingItemIndex>>

BrowsingInput(data) ==
    IF KbMatches(data, "selectUp") THEN
        /\ selectedIndex' =
              IF Len(displayItems) = 0 THEN selectedIndex
              ELSE IF selectedIndex = 0 THEN Len(displayItems) - 1
              ELSE selectedIndex - 1
        /\ calls' = <<>>
        /\ UNCHANGED <<items, filteredItems, searchEnabled, searchInput, submenuComponent,
                       submenuItemIndex, submenuItem, editingInput, editingItemIndex>>
    ELSE IF KbMatches(data, "selectDown") THEN
        /\ selectedIndex' =
              IF Len(displayItems) = 0 THEN selectedIndex
              ELSE IF selectedIndex = Len(displayItems) - 1 THEN 0
              ELSE selectedIndex + 1
        /\ calls' = <<>>
        /\ UNCHANGED <<items, filteredItems, searchEnabled, searchInput, submenuComponent,
                       submenuItemIndex, submenuItem, editingInput, editingItemIndex>>
    ELSE IF KbMatches(data, "selectConfirm") \/ data = " " THEN activateItem
    ELSE IF KbMatches(data, "selectCancel") THEN
        /\ calls' = <<OnCancel>>
        /\ UNCHANGED <<items, filteredItems, selectedIndex, searchEnabled, searchInput,
                       submenuComponent, submenuItemIndex, submenuItem,
                       editingInput, editingItemIndex>>
    ELSE IF searchEnabled /\ searchInput # Null THEN SearchInput(data)
    ELSE
        /\ calls' = <<>>
        /\ UNCHANGED <<items, filteredItems, selectedIndex, searchEnabled, searchInput,
                       submenuComponent, submenuItemIndex, submenuItem,
                       editingInput, editingItemIndex>>

\* handleInput that keeps the navigation tokens for the list while a
\* submenu is open
handleInputSharesNavigation(data) ==
    IF editingInput # Null THEN handleEditingInput(data)
    ELSE IF /\ submenuComponent # Null
            /\ ~(KbMatches(data, "selectUp") \/ KbMatches(data, "selectDown"))
    THEN SubmenuHandleInput(data)
    ELSE BrowsingInput(data)

\* handleInput that does not hand the token to an open submenu
handleInputNoDelegation(data) ==
    IF editingInput # Null THEN handleEditingInput(data)
    ELSE BrowsingInput(data)

handleInput(data) ==
    IF editingInput # Null THEN handleEditingInput(data)
    ELSE IF submenuComponent # Null THEN SubmenuHandleInput(data)
    ELSE BrowsingInput(data)

\* the visible range of renderMainList: startIndex without the lower
\* clamp at 0
startIndexUnclamped ==
    Min(selectedIndex - (maxVisible \div 2), Len(displayItems) - maxVisible)

\* Math.max(0, Math.min(this.selectedIndex - Math.floor(this.maxVisible / 2),
\*                      displayItems.length - this.maxVisible))
startIndex ==
    LET centred == Min(selectedIndex - (maxVisible \div 2), Len(displayItems) - maxVisible)
    IN  IF centred < 0 THEN 0 ELSE centred

\* Math.min(startIndex + this.maxVisible, displayItems.length)
endIndex == Min(startIndex + maxVisible, Len(displayItems))

-----------------------------------------------------------------------------
(* The widgets driven by their callers *)

Mode ==
    IF editingInput # Null THEN "Editing"
    ELSE IF submenuComponent # Null THEN "SubmenuActive"
    ELSE "Browsing"

CurrentValues == [k \in 1..Len(items) |-> items[k].currentValue]

\* the item an activation in Browsing would act on, 0 when there is none
Target == IF DisplayedAt(selectedIndex) = Null THEN 0 ELSE DisplayedAt(selectedIndex)[1]

IsCycling(k) == k > 0 /\ items[k].submenu = Null /\ Len(items[k].values) > 0
IsActivation(data) == KbMatches(data, "selectConfirm") \/ data = " "

\* an Input of the list holds at most MaxText characters once typed into
TextTracked(old, new) ==
    (old # Null /\ new # Null /\ Len(new[1].value) > Len(old[1].value))
        => Len(new[1].value) <= MaxText

\* the item the next token acts on: the edited item, the item whose submenu
\* is open, or the selected item; 0 when there is none
ActiveItem ==
    IF Mode = "Editing"
    THEN (IF DisplayedAt(editingItemIndex) = Null THEN 0 ELSE DisplayedAt(editingItemIndex)[1])
    ELSE IF Mode = "SubmenuActive" THEN submenuItem
    ELSE Target

\* the token changed the text of the open editor or the selection of the open child
Dirtied ==
    \/ /\ editingInput # Null /\ editingInput' # Null
       /\ editingInput'[1].value # editingInput[1].value
    \/ /\ submenuComponent # Null /\ submenuComponent' # Null
       /\ submenuComponent'[1].selected # submenuComponent[1].selected

HandleInputStep(data) ==
    /\ handleInput(data)
    /\ TextTracked(editingInput, editingInput')
    /\ TextTracked(searchInput, searchInput')
    /\ submenuComponent' # Null => CursorTracked(submenuComponent'[1])
    /\ lastOp' = [op |-> "handleInput", data |-> data, mode |-> Mode, target |-> ActiveItem]
    /\ typed' = IF Mode = "Browsing" /\ editingInput' # Null
                THEN Some([prefill |-> items[Target].currentValue, text |-> <<>>])
                ELSE IF Mode = "Editing" /\ typed # Null /\ editingInput' = Null
                THEN typed
                ELSE IF Mode = "Editing" /\ typed # Null /\ data \in Printable
                THEN Some([typed[1] EXCEPT !.text = @ \o CharsOf(data)])
                ELSE Null
    /\ snap' = IF Mode = "Browsing"
               THEN (IF editingInput' # Null \/ submenuComponent' # Null
                     THEN Some([cv |-> CurrentValues, sel |-> selectedIndex, dirty |-> FALSE])
                     ELSE Null)
               ELSE IF snap = Null THEN Null
               ELSE Some([snap[1] EXCEPT !.dirty = @ \/ Dirtied])
    /\ run' = IF Mode = "Browsing" /\ IsActivation(data) /\ IsCycling(Target)
              THEN IF run # Null /\ run[1].item = Target
                      /\ run[1].count < Len(items[Target].values)
                   THEN Some([run[1] EXCEPT !.count = @ + 1])
                   ELSE Some([item |-> Target, start |-> items[Target].currentValue,
                              count |-> 1])
              ELSE Null
    /\ activated' = IF editingInput' = Null /\ submenuComponent' = Null THEN 0
                    ELSE IF Mode = "Browsing" THEN Target
                    ELSE activated
    /\ UNCHANGED <<omsVars, extVars, maxVisible, window>>

UpdateValueStep(id, newValue) ==
    /\ updateValue(id, newValue)
    /\ lastOp' = [op |-> "updateValue", data |-> id, mode |-> Mode, target |-> 0]
    /\ typed' = IF Mode = "Editing" THEN typed ELSE Null
    /\ snap' = Null
    /\ run' = Null
    /\ UNCHANGED <<omsVars, extVars, activated, maxVisible, window>>

\* the option row under the cursor of the stand-alone widget, if any
OMSRow == ItemAtCursor(oms, buildDisplayItems(oms))

IsToggle(data) == data = " " /\ OMSRow # Null
IsReorder(data) == data \in {"shift+up", "shift+down"} /\ OMSRow # Null
IsNavigation(data) == data \in {"up", "down"}

\* the history of a widget just built with the given selected ids
OMSHistNew(selected) ==
    [seed    |-> selected,
     touched |-> {},
     prev    |-> Null,
     off     |-> Null,
     order   |-> IF selected = <<>> THEN Some(<<>>) ELSE Null]

\* the history after the token data, which takes the widget from oms to w
OMSHistAfter(data, w) ==
    LET id    == OMSRow[1].option.id
        moved == IsReorder(data) /\ w # oms
    IN
    [seed    |-> omsHist.seed,
     \* the ids of the initial value whose option was toggled or moved by
     \* a reorder
     touched |-> IF (IsToggle(data) \/ moved) /\ Includes(omsHist.seed, id)
                 THEN omsHist.touched \cup {id} ELSE omsHist.touched,
     \* the widget before a reorder that changed it
     prev    |-> IF moved THEN Some([selected |-> oms.selected,
                                     cursorIndex |-> oms.cursorIndex, id |-> id])
                 ELSE Null,
     \* the option toggled off, and on again after navigation only
     off     |-> IF IsToggle(data) /\ OMSRow[1].selected
                 THEN Some([id |-> id, before |-> oms.selected, again |-> FALSE])
                 ELSE IF /\ IsToggle(data) /\ omsHist.off # Null
                         /\ ~omsHist.off[1].again /\ omsHist.off[1].id = id
                 THEN Some([omsHist.off[1] EXCEPT !.again = TRUE])
                 ELSE IF /\ IsNavigation(data) /\ omsHist.off # Null
                         /\ ~omsHist.off[1].again
                 THEN omsHist.off
                 ELSE Null,
     \* from an empty value and without reorders: the ids toggled on and
     \* not off since, in the order they were toggled on
     order   |-> IF omsHist.order = Null \/ moved THEN Null
                 ELSE IF IsToggle(data) /\ OMSRow[1].selected
                 THEN Some(SelectSeq(omsHist.order[1], LAMBDA s : s # id))
                 ELSE IF IsToggle(data)
                 THEN Some(Append(omsHist.order[1], id))
                 ELSE omsHist.order]

OMSStep(data) ==
    LET r == OMSHandleInput(oms, data) IN
    /\ oms' = r.w
    /\ CursorTracked(r.w)
    /\ omsDone' = r.done
    /\ omsHist' = OMSHistAfter(data, r.w)
    /\ lastOp' = [op |-> "omsInput", data |-> data, mode |-> "Standalone", target |-> 0]
    /\ UNCHANGED <<slVars, calls, extVars>>

-----------------------------------------------------------------------------
(* The settings file and its helpers (src/settings/storage.ts) *)

\* JavaScript values: a string is its sequence of characters, a number an
\* integer, a boolean a boolean; undefined is a value too, and so is a
\* function (a member every object inherits from Object.prototype)
JsString(s) == <<"string", s>>
JsNumber(n) == <<"number", n>>
JsBoolean(b) == <<"boolean", b>>
JsUndefined == <<"undefined">>

\* typeof value, and what the value is
TypeOf(value) == value[1]
ValueOf(value) == value[2]

\* a === b
StrictEquals(a, b) == TypeOf(a) = TypeOf(b) /\ a = b

Digits == <<"0", "1", "2", "3", "4", "5", "6", "7", "8", "9">>
TrueText == <<"t", "r", "u", "e">>
FalseText == <<"f", "a", "l", "s", "e">>

\* JSON.stringify of a natural number: its decimal digits
RECURSIVE NumberText(_)
NumberText(n) ==
    IF n < 10 THEN <<Digits[n + 1]>>
    ELSE NumberText(n \div 10) \o <<Digits[(n % 10) + 1]>>

\* encodeSettingValue(value): a string as it is, anything else as its JSON
\* text, and String(value) for what JSON.stringify turns into undefined
encodeSettingValue(value) ==
    CASE TypeOf(value) = "string"  -> ValueOf(value)
      [] TypeOf(value) = "number"  -> NumberText(ValueOf(value))
      [] TypeOf(value) = "boolean" -> IF ValueOf(value) THEN TrueText ELSE FalseText
      [] OTHER                     -> <<"u", "n", "d", "e", "f", "i", "n", "e", "d">>

\* the file: missing, not JSON, or the text of an object that maps each
\* extension name to an object of strings
FileMissing == [kind |-> "missing", data |-> <<>>]
FileInvalid == [kind |-> "invalid", data |-> <<>>]
FileJson(settings) == [kind |-> "json", data |-> settings]

\* loadSettingsFile(path)
\* an object without properties is the empty function
loadSettingsFile(f) == IF f.kind = "json" THEN f.data ELSE <<>>

\* saveSettingsFile(path, settings)
saveSettingsFile(settings) == FileJson(settings)

\* the property names every object literal inherits
InheritedNames == {"toString"}

HasOwn(obj, key) == key \in DOMAIN obj
\* key in obj
HasProperty(obj, key) == HasOwn(obj, key) \/ key \in InheritedNames
\* obj[key] of an object of strings
GetProperty(obj, key) ==
    IF HasOwn(obj, key) THEN JsString(obj[key])
    ELSE IF key \in InheritedNames THEN <<"function", key>>
    ELSE JsUndefined

\* getSettingsForExtension(extensionName); extension names are never
\* inherited names here
getSettingsForExtension(f, extensionName) ==
    LET settings == loadSettingsFile(f) IN
    IF HasOwn(settings, extensionName) THEN settings[extensionName] ELSE <<>>

\* getSetting(extensionName, settingId, defaultValue)
getSetting(f, extensionName, settingId, defaultValue) ==
    LET settings == loadSettingsFile(f) IN
    IF HasOwn(settings, extensionName) /\ HasProperty(settings[extensionName], settingId)
    THEN GetProperty(settings[extensionName], settingId)
    ELSE defaultValue

\* setSetting(extensionName, settingId, value): the file afterwards
setSetting(f, extensionName, settingId, value) ==
    LET settings == loadSettingsFile(f)
        old      == getSettingsForExtension(f, extensionName)
    IN  saveSettingsFile(
            [e \in DOMAIN settings \cup {extensionName} |->
                IF e = extensionName
                THEN [i \in DOMAIN old \cup {settingId} |->
                         IF i = settingId THEN value ELSE old[i]]
                ELSE settings[e]])

(* The typed store (createSettingsStoreFactory) *)

\* a schema is the list of its properties; a property has a key, a type
\* ("string", "enum", "number" or "boolean"), the members of an enum,
\* whether it is optional and whether it decodes text (a morph such as
\* arktype's string.numeric.parse) or takes the value as it is
Property(key, type, members, optional, parses) ==
    [key |-> key, type |-> type, members |-> members,
     optional |-> optional, parses |-> parses]

\* type({ theme: "'light' | 'dark'", username: "string" })
ExampleSettingsSchema ==
    << Property("theme", "enum", <<(<<"a">>), (<<"b">>)>>, FALSE, FALSE),
       Property("username", "string", <<>>, FALSE, FALSE) >>

\* type({ timeout: type.number, enableFeatureX: type.boolean,
\*        projectName: type.string })
myExtensionSettingsSchema ==
    << Property("timeout", "number", <<>>, FALSE, FALSE),
       Property("enableFeatureX", "boolean", <<>>, FALSE, FALSE),
       Property("projectName", "string", <<>>, FALSE, FALSE) >>

\* a schema of optional properties that decode the stored text
DecodingSchema ==
    << Property("enableFeatureX", "boolean", <<>>, TRUE, TRUE),
       Property("projectName", "string", <<>>, TRUE, FALSE) >>

Schemas == {ExampleSettingsSchema, myExtensionSettingsSchema, DecodingSchema}

\* what a property makes of a stored string: Null for an issue, or the
\* validated value
ValidateProperty(p, str) ==
    CASE p.type = "string"  -> Some(JsString(str))
      [] p.type = "enum"    -> IF Includes(p.members, str) THEN Some(JsString(str)) ELSE Null
      \* no schema here decodes a numeral
      [] p.type = "number"  -> Null
      [] p.type = "boolean" -> IF p.parses /\ str \in {TrueText, FalseText}
                               THEN Some(JsBoolean(str = TrueText)) ELSE Null

\* schema["~standard"].validate(raw)
validateSettings(schema, raw) ==
    LET Ok(p) == IF HasOwn(raw, p.key) THEN ValidateProperty(p, raw[p.key]) # Null
                 ELSE p.optional
    IN  IF \A i \in 1..Len(schema) : Ok(schema[i])
        THEN [issues |-> FALSE,
              value  |-> [k \in {schema[i].key : i \in 1..Len(schema)} \cap DOMAIN raw |->
                             ValidateProperty(
                                 schema[CHOOSE i \in 1..Len(schema) : schema[i].key = k],
                                 raw[k])[1]]]
        ELSE [issues |-> TRUE, value |-> <<>>]

\* store.get(key, fallback)
StoreGet(f, extensionName, schema, key, fallback) ==
    LET raw    == getSettingsForExtension(f, extensionName)
        result == validateSettings(schema, raw)
    IN  IF result.issues THEN fallback
        ELSE IF HasOwn(result.value, key) THEN result.value[key]
        ELSE fallback

\* store.set(key, value): the file afterwards
StoreSet(f, extensionName, key, value) ==
    setSetting(f, extensionName, key, encodeSettingValue(value))

\* the characters of a property key
KeyText(key) ==
    CASE key = "theme"          -> <<"t", "h", "e", "m", "e">>
      [] key = "username"       -> <<"u", "s", "e", "r", "n", "a", "m", "e">>
      [] key = "timeout"        -> <<"t", "i", "m", "e", "o", "u", "t">>
      [] key = "enableFeatureX" -> <<"e", "n", "a", "b", "l", "e", "F", "e", "a",
                                     "t", "u", "r", "e", "X">>
      [] key = "projectName"    -> <<"p", "r", "o", "j", "e", "c", "t", "N", "a",
                                     "m", "e">>

\* deriveSettingValues(schema) of the input schema of a property: a
\* property that decodes text takes a string as its input
deriveSettingValues(p) ==
    IF p.type = "enum" THEN Some(p.members)
    ELSE IF p.type = "boolean" /\ ~p.parses THEN Some(<<TrueText, FalseText>>)
    ELSE Null

\* deriveDefaultValue(schema)
deriveDefaultValue(p) ==
    IF p.type = "enum" THEN p.members[1]
    ELSE IF p.type = "boolean" /\ ~p.parses THEN FalseText
    ELSE <<>>

SettingDefinition(id, label, defaultValue, values) ==
    [id |-> id, label |-> label, defaultValue |-> defaultValue, values |-> values]

\* createSettingsDefinitionsFromSchema(schema)
createSettingsDefinitionsFromSchema(schema) ==
    [i \in 1..Len(schema) |->
        SettingDefinition(schema[i].key, KeyText(schema[i].key),
                          deriveDefaultValue(schema[i]),
                          deriveSettingValues(schema[i]))]

(* The calls made on the store and the command, and the announcements *)

Call(op, ext, id, arg, result) ==
    [op |-> op, ext |-> ext, id |-> id, arg |-> arg, result |-> result]

\* no scope has announced its settings
NoneAnnounced == [early |-> {}, heard |-> {}, documented |-> {}]

-----------------------------------------------------------------------------
(* Initial states *)

Str(c) == <<c>>
Option(id) == [id |-> id, label |-> <<"#">> \o id]

Item(id, label, currentValue, values, submenu) ==
    [id |-> id, label |-> label, currentValue |-> currentValue,
     values |-> values, submenu |-> submenu]

\* the header row the /extension-settings command builds for an extension
HeaderItem(extName, label) == Item("__header__" \o extName, label, <<>>, <<>>, Null)

ExtNames == {"ext", "lib"}

\* the names and ids of the model are built from parts without "::",
\* joined by "::"
RECURSIVE JoinParts(_)
JoinParts(parts) ==
    IF Len(parts) = 1 THEN parts[1]
    ELSE parts[1] \o "::" \o JoinParts(Tail(parts))

NameParts == SeqsUpTo({"ext", "lib", "mode"}, 3) \ {<<>>}

\* id.startsWith("__header__")
IsHeaderId(id) == \E parts \in NameParts : id = "__header__" \o JoinParts(parts)

\* id.split("::")
SplitId(id) ==
    IF \E parts \in NameParts : JoinParts(parts) = id
    THEN CHOOSE parts \in NameParts : JoinParts(parts) = id
    ELSE <<id>>

ABOptions == <<Option(Str("a")), Option(Str("b"))>>

\* a cycling item, a free-text item and an ordered multi-select
MainItems ==
    << Item("ext::mode", <<" ", " ", "a">>, Str("b"), <<Str("a"), Str("b")>>, Null),
       Item("ext::name", <<" ", " ", "b">>, <<>>, <<>>, Null),
       Item("ext::order", <<" ", " ", "b", "a">>, <<>>, <<>>, Some(ABOptions)) >>

\* a header row and a cycling item
CycleAlphabet == {Str("a"), Str("b"), Str("c")}
CycleItems(values, currentValue) ==
    << HeaderItem("ext", <<"a", "b">>),
       Item("ext::mode", <<" ", " ", "a">>, currentValue, values, Null) >>

ItemIds == {"__header__ext", "ext::name", "ext::order", "ext::mode", "ext::absent"}
UpdateValues == {Str("a")}

\* new SettingsList(items, maxVisible, theme, onChange, onCancel, options)
SettingsListNew(its, enableSearch) ==
    /\ items = its
    /\ filteredItems = [i \in 1..Len(its) |-> i]
    /\ selectedIndex = 0
    /\ searchEnabled = enableSearch
    /\ searchInput = IF enableSearch THEN Some(InputNew) ELSE Null
    /\ submenuComponent = Null
    /\ submenuItemIndex = NullIndex
    /\ submenuItem = 0
    /\ editingInput = Null
    /\ editingItemIndex = NullIndex

\* Math.min(items.length + 2, 20) rows at most, nothing rendered yet
DefaultWindow ==
    /\ maxVisible = Min(Len(items) + 2, 20)
    /\ window = Null

NoHistory ==
    /\ calls = <<>>
    /\ lastOp = [op |-> "new", data |-> "", mode |-> "Browsing", target |-> 0]
    /\ typed = Null
    /\ snap = Null
    /\ run = Null
    /\ activated = 0

NoStandalone ==
    /\ oms = OrderedMultiSelectNew(<<>>, <<>>)
    /\ omsDone = NotDone
    /\ omsHist = OMSHistNew(oms.selected)

\* the settings extension not loaded, no settings file, nothing announced
NoExtension ==
    /\ registry = Null
    /\ announced = NoneAnnounced
    /\ file = FileMissing
    /\ store = [name |-> "ext", schema |-> ExampleSettingsSchema]
    /\ io = Call("none", "", "", JsUndefined, JsUndefined)

Init ==
    /\ \E enableSearch \in BOOLEAN : SettingsListNew(MainItems, enableSearch)
    /\ NoHistory
    /\ DefaultWindow
    /\ NoStandalone
    /\ NoExtension

Next ==
    \/ \E data \in Tokens : HandleInputStep(data)
    \/ \E id \in ItemIds, newValue \in UpdateValues : UpdateValueStep(id, newValue)

Spec == Init /\ [][Next]_vars

(* A list with a cycling item, for every values list *)

InitCycle ==
    /\ \E values \in SeqsUpTo(CycleAlphabet, MaxValues) \ {<<>>},
          currentValue \in {<<>>, Str("a")} :
          SettingsListNew(CycleItems(values, currentValue), FALSE)
    /\ NoHistory
    /\ DefaultWindow
    /\ NoStandalone
    /\ NoExtension

SpecCycle == InitCycle /\ [][Next]_vars

(* A stand-alone OrderedMultiSelect, for every initial value string *)

SeedChars == {"a", "x", ",", " "}
OptionLists == {<<>>, ABOptions, ABOptions \o <<Option(Str("c"))>>}

InitOMS ==
    /\ SettingsListNew(<<>>, FALSE)
    /\ NoHistory
    /\ DefaultWindow
    /\ \E options \in OptionLists, currentValue \in SeqsUpTo(SeedChars, MaxSeedLen) :
          oms = OrderedMultiSelectNew(options, currentValue)
    /\ omsDone = NotDone
    /\ omsHist = OMSHistNew(oms.selected)
    /\ NoExtension

OMSTokens == Tokens \ {"a", "a ", "backspace"}

NextOMS == \E data \in OMSTokens : OMSStep(data)

SpecOMS == InitOMS /\ [][NextOMS]_vars

(* The settings file under getSetting, setSetting and a typed store *)

SettingIds == {"timeout", "toString"}
StoredStrings == {<<"a">>, <<"3", "0">>}
Defaults == {JsUndefined, JsString(<<"d">>)}

\* the values a caller of the typed store has for a property, by its type
ValuesOf(p) ==
    CASE p.type = "string"  -> {JsString(<<"a">>)}
      [] p.type = "enum"    -> {JsString(p.members[i]) : i \in 1..Len(p.members)}
      [] p.type = "number"  -> {JsNumber(30)}
      [] p.type = "boolean" -> {JsBoolean(TRUE), JsBoolean(FALSE)}

FallbacksOf(p) ==
    CASE p.type = "string"  -> {JsUndefined, JsString(<<"d">>)}
      [] p.type = "enum"    -> {JsUndefined, JsString(p.members[1])}
      [] p.type = "number"  -> {JsUndefined, JsNumber(5)}
      [] p.type = "boolean" -> {JsUndefined, JsBoolean(FALSE)}

InitStore ==
    /\ SettingsListNew(<<>>, FALSE)
    /\ NoHistory
    /\ DefaultWindow
    /\ NoStandalone
    /\ registry = Null
    /\ announced = NoneAnnounced
    /\ file \in {FileMissing, FileInvalid, FileJson(<<>>)}
    /\ \E schema \in Schemas : store = [name |-> "ext", schema |-> schema]
    /\ io = Call("none", "", "", JsUndefined, JsUndefined)

GetSettingStep(extensionName, settingId, defaultValue) ==
    /\ io' = Call("getSetting", extensionName, settingId, defaultValue,
                  getSetting(file, extensionName, settingId, defaultValue))
    /\ UNCHANGED <<slVars, omsVars, registry, announced, file, store,
                   calls, lastOp, typed, snap, run>>

SetSettingStep(extensionName, settingId, value) ==
    /\ file' = setSetting(file, extensionName, settingId, value)
    /\ io' = Call("setSetting", extensionName, settingId, JsString(value), JsUndefined)
    /\ UNCHANGED <<slVars, omsVars, registry, announced, store,
                   calls, lastOp, typed, snap, run>>

StoreGetStep(key, fallback) ==
    /\ io' = Call("store.get", store.name, key, fallback,
                  StoreGet(file, store.name, store.schema, key, fallback))
    /\ UNCHANGED <<slVars, omsVars, registry, announced, file, store,
                   calls, lastOp, typed, snap, run>>

StoreSetStep(key, value) ==
    /\ file' = StoreSet(file, store.name, key, value)
    /\ io' = Call("store.set", store.name, key, value, JsUndefined)
    /\ UNCHANGED <<slVars, omsVars, registry, announced, store,
                   calls, lastOp, typed, snap, run>>

NextStore ==
    \/ \E extensionName \in ExtNames, settingId \in SettingIds, defaultValue \in Defaults :
          GetSettingStep(extensionName, settingId, defaultValue)
    \/ \E extensionName \in ExtNames, settingId \in SettingIds, value \in StoredStrings :
          SetSettingStep(extensionName, settingId, value)
    \/ \E i \in 1..Len(store.schema) : \E fallback \in FallbacksOf(store.schema[i]) :
          StoreGetStep(store.schema[i].key, fallback)
    \/ \E i \in 1..Len(store.schema) : \E value \in ValuesOf(store.schema[i]) :
          StoreSetStep(store.schema[i].key, value)

SpecStore == InitStore /\ [][NextStore]_vars

(* A list of any length rendered through a window of any size *)

\* render(width): the rows of the main list that are drawn, none when a
\* submenu draws itself or there is nothing to list
RenderStep ==
    /\ window' = IF submenuComponent # Null \/ Len(items) = 0 \/ Len(displayItems) = 0
                 THEN Null
                 ELSE Some([startIndex |-> startIndex, endIndex |-> endIndex,
                            selectedIndex |-> selectedIndex, n |-> Len(displayItems)])
    /\ lastOp' = [op |-> "render", data |-> "", mode |-> Mode, target |-> 0]
    /\ calls' = <<>>
    /\ UNCHANGED <<items, filteredItems, selectedIndex, maxVisible, searchEnabled,
                   searchInput, submenuComponent, submenuItemIndex, submenuItem,
                   editingInput, editingItemIndex, typed, snap, run, activated,
                   omsVars, extVars>>

InitRender ==
    /\ \E n \in 0..MaxRows :
          SettingsListNew([k \in 1..n |-> Item("ext::name", <<" ", " ", "b">>, <<>>, <<>>, Null)],
                          FALSE)
    /\ maxVisible \in 1..MaxWindow
    /\ window = Null
    /\ NoHistory
    /\ NoStandalone
    /\ NoExtension

NextRender ==
    \/ \E data \in {"up", "down"} : HandleInputStep(data)
    \/ RenderStep

SpecRender == InitRender /\ [][NextRender]_vars

(* The settings extension: registry, registration events and the command *)

\* the event piLibExtension listens on, and the event the README and the
\* store factory announce on
ListenedEvent == "pi-lib:register"
DocumentedEvent == "pi-extension-settings:register"

\* pi.events.emit(event, data) runs the handlers attached to the event at
\* that moment and keeps nothing for handlers attached later
Delivered(event) == registry # Null /\ event = ListenedEvent

\* registry.set(name, settings): the entries of the Map in insertion order
RegistrySet(entries, name, settings) ==
    IF \E i \in 1..Len(entries) : entries[i].name = name
    THEN [i \in 1..Len(entries) |->
             IF entries[i].name = name THEN [name |-> name, settings |-> settings]
             ELSE entries[i]]
    ELSE Append(entries, [name |-> name, settings |-> settings])

\* the extension names in the order of localeCompare
Collation == <<"ext", "ext::lib", "lib">>
NameText(name) ==
    CASE name = "ext"      -> <<"e", "x", "t">>
      [] name = "ext::lib" -> <<"e", "x", "t", ":", ":", "l", "i", "b">>
      [] name = "lib"      -> <<"l", "i", "b">>

\* Array.from(registry.entries()).sort(([a], [b]) => a.localeCompare(b))
sortedExtensions(entries) ==
    LET names == SelectSeq(Collation,
                     LAMBDA n : \E i \in 1..Len(entries) : entries[i].name = n)
    IN  [k \in 1..Len(names) |->
            entries[CHOOSE i \in 1..Len(entries) : entries[i].name = names[k]]]

\* the row of a setting; no setting id used here is an inherited name, so
\* getSetting gives a string or the default
SettingRow(f, extName, setting) ==
    LET stored == getSetting(f, extName, setting.id, JsString(setting.defaultValue))
    IN  Item(extName \o "::" \o setting.id,
             <<" ", " ">> \o setting.label,
             IF TypeOf(stored) = "string" THEN ValueOf(stored) ELSE setting.defaultValue,
             IF setting.values = Null THEN <<>> ELSE setting.values[1],
             Null)

\* the items the command builds from the sorted entries: for each, its
\* header and the rows of its settings
RECURSIVE CommandItems(_, _)
CommandItems(f, entries) ==
    IF entries = <<>> THEN <<>>
    ELSE LET entry == Head(entries) IN
         <<HeaderItem(entry.name, NameText(entry.name))>>
         \o [j \in 1..Len(entry.settings) |->
                SettingRow(f, entry.name, entry.settings[j])]
         \o CommandItems(f, Tail(entries))

\* ctx.ui.notify("No extensions have registered settings", "info"), and
\* ctx.ui.custom(...) showing the list
Notified == <<"notify", "No extensions have registered settings">>
ListShown == <<"custom">>

\* piLibExtension(pi): a new empty registry and its listener
piLibExtensionRedelivers ==
    /\ registry = Null
    /\ registry' = Some([k \in 1..Len(SelectSeq(Collation, LAMBDA n : n \in announced.early)) |->
                           [name |-> SelectSeq(Collation, LAMBDA n : n \in announced.early)[k],
                            settings |-> <<>>]])
    /\ io' = Call("load", "", "", JsUndefined, JsUndefined)
    /\ UNCHANGED <<slVars, omsVars, announced, file, store, calls, lastOp, typed, snap, run>>

piLibExtension ==
    /\ registry = Null
    /\ registry' = Some(<<>>)
    /\ io' = Call("load", "", "", JsUndefined, JsUndefined)
    /\ UNCHANGED <<slVars, omsVars, announced, file, store, calls, lastOp, typed, snap, run>>

\* the listener: registry.set(name, settings), when the event reaches it
RegistryAfter(event, name, settings) ==
    IF Delivered(event) THEN Some(RegistrySet(registry[1], name, settings))
    ELSE registry

\* the announcements made so far, after one more
AnnouncedAfter(event, name) ==
    IF registry = Null
    THEN [announced EXCEPT !.early = @ \cup {name}]
    ELSE IF event = ListenedEvent
    THEN [announced EXCEPT !.heard = @ \cup {name}]
    ELSE [announced EXCEPT !.documented = @ \cup {name}]

\* pi.events.emit(event, { name, settings }) by some extension
EmitStep(event, name, settings) ==
    /\ registry' = RegistryAfter(event, name, settings)
    /\ announced' = AnnouncedAfter(event, name)
    /\ io' = Call("emit", name, event, JsUndefined, JsUndefined)
    /\ UNCHANGED <<slVars, omsVars, file, store, calls, lastOp, typed, snap, run>>

\* the factory returned by createSettingsStoreFactory(extensionName, schema),
\* called with pi
FactoryStep ==
    /\ registry' = RegistryAfter(DocumentedEvent, store.name,
                                 createSettingsDefinitionsFromSchema(store.schema))
    /\ announced' = AnnouncedAfter(DocumentedEvent, store.name)
    /\ io' = Call("factory", store.name, DocumentedEvent, JsUndefined, JsUndefined)
    /\ UNCHANGED <<slVars, omsVars, file, store, calls, lastOp, typed, snap, run>>

\* the handler of the command extension-settings
RunCommandStep ==
    /\ registry # Null
    /\ IF registry[1] = <<>>
       THEN /\ io' = Call("command", "", "", JsUndefined, Notified)
            /\ UNCHANGED <<slVars, calls, lastOp, typed, snap, run>>
       ELSE LET its == CommandItems(file, sortedExtensions(registry[1])) IN
            /\ io' = Call("command", "", "", JsUndefined, ListShown)
            /\ items' = its
            /\ filteredItems' = [i \in 1..Len(its) |-> i]
            /\ selectedIndex' = 0
            /\ searchEnabled' = TRUE
            /\ searchInput' = Some(InputNew)
            /\ submenuComponent' = Null
            /\ submenuItemIndex' = NullIndex
            /\ submenuItem' = 0
            /\ editingInput' = Null
            /\ editingItemIndex' = NullIndex
            /\ calls' = <<>>
            /\ lastOp' = [op |-> "new", data |-> "", mode |-> "Browsing", target |-> 0]
            /\ typed' = Null
            /\ snap' = Null
            /\ run' = Null
            /\ activated' = 0
            /\ maxVisible' = Min(Len(its) + 2, 20)
            /\ window' = Null
    /\ UNCHANGED <<omsVars, registry, announced, file, store>>

\* the settings a scope announces: a setting with values, and with it a
\* free-text setting
AnnouncedSettings ==
    LET ModeSetting == SettingDefinition("mode", <<"a">>, <<"b">>,
                                         Some(<<(<<"a">>), (<<"b">>)>>))
        NameSetting == SettingDefinition("name", <<"b">>, <<>>, Null)
    IN  {<<ModeSetting>>, <<ModeSetting, NameSetting>>}

InitRegistry ==
    /\ SettingsListNew(<<>>, FALSE)
    /\ NoHistory
    /\ DefaultWindow
    /\ NoStandalone
    /\ registry = Null
    /\ announced = NoneAnnounced
    /\ file \in {FileMissing, setSetting(FileMissing, "ext", "mode", <<"a">>)}
    /\ \E schema \in Schemas : store = [name |-> "ext", schema |-> schema]
    /\ io = Call("none", "", "", JsUndefined, JsUndefined)

NextRegistry ==
    \/ piLibExtension
    \/ \E event \in {ListenedEvent, DocumentedEvent}, name \in ExtNames, settings \in AnnouncedSettings :
          EmitStep(event, name, settings)
    \/ FactoryStep
    \/ RunCommandStep

SpecRegistry == InitRegistry /\ [][NextRegistry]_vars

(* The list of the command and the onChange the command gives it *)

\* (id, newValue) => { ... setSetting(extensionName, settingId, newValue) }:
\* the file afterwards
CommandOnChange(f, id, newValue) ==
    IF IsHeaderId(id) THEN f
    ELSE LET parts == SplitId(id) IN
         IF Len(parts) >= 2 THEN setSetting(f, parts[1], parts[2], newValue)
         ELSE f

\* handleInput(data) of the component the command shows
CommandInputStep(data) ==
    /\ handleInput(data)
    /\ TextTracked(editingInput, editingInput')
    /\ TextTracked(searchInput, searchInput')
    /\ lastOp' = [op |-> "commandInput", data |-> data, mode |-> Mode, target |-> ActiveItem]
    /\ file' = IF calls' # <<>> /\ calls'[1].cb = "onChange"
               THEN CommandOnChange(file, calls'[1].id, calls'[1].value)
               ELSE file
    /\ activated' = IF editingInput' = Null /\ submenuComponent' = Null THEN 0
                    ELSE IF Mode = "Browsing" THEN Target
                    ELSE activated
    /\ UNCHANGED <<omsVars, registry, announced, store, io, typed, snap, run,
                   maxVisible, window>>

\* one scope has announced one setting to the loaded extension; its name
\* or the id of its setting may contain "::"
InitCommand ==
    /\ SettingsListNew(<<>>, FALSE)
    /\ NoHistory
    /\ DefaultWindow
    /\ NoStandalone
    /\ \E name \in {"ext", "ext::lib"}, id \in {"mode", "lib::mode"} :
          /\ registry = Some(<<[name |-> name,
                                settings |-> <<SettingDefinition(id, <<"a">>, <<"b">>,
                                                   Some(<<(<<"a">>), (<<"b">>)>>))>>]>>)
          /\ announced = [NoneAnnounced EXCEPT !.heard = {name}]
          /\ io = Call("emit", name, ListenedEvent, JsUndefined, JsUndefined)
    /\ file \in {FileMissing, setSetting(FileMissing, "ext", "mode", <<"a">>)}
    /\ store = [name |-> "ext", schema |-> ExampleSettingsSchema]

NextCommand ==
    \/ RunCommandStep
    \/ \E data \in {"down", "enter", "a"} : CommandInputStep(data)

SpecCommand == InitCommand /\ [][NextCommand]_vars

-----------------------------------------------------------------------------
(* Properties *)

InSubState(m) ==
    CASE m = "Browsing"      -> editingInput = Null /\ submenuComponent = Null
      [] m = "Editing"       -> editingInput # Null
      [] m = "SubmenuActive" -> submenuComponent # Null

\* the first value after the first occurrence of currentValue in values,
\* wrapping at the end; the first value when currentValue does not occur
NextInCycle(values, currentValue) ==
    IF \E j \in 1..Len(values) : values[j] = currentValue
    THEN LET j == CHOOSE i \in 1..Len(values) :
                      values[i] = currentValue /\ \A h \in 1..(i - 1) : values[h] # currentValue
         IN  IF j = Len(values) THEN values[1] ELSE values[j + 1]
    ELSE values[1]

NoDuplicates(seq) == \A i, j \in 1..Len(seq) : seq[i] = seq[j] => i = j

\* C1: exactly one of Browsing, Editing, SubmenuActive holds in every state
\* of the list: the inline editor and the submenu are never both active.
C1_OneSubState ==
    Cardinality({m \in {"Browsing", "Editing", "SubmenuActive"} : InSubState(m)}) = 1

\* a space was handed to an open submenu, which toggled and stayed open
C1_Witness ==
    /\ lastOp.op = "handleInput" /\ lastOp.mode = "SubmenuActive" /\ lastOp.data = " "
    /\ submenuComponent # Null /\ submenuComponent[1].selected # <<>>
    /\ editingInput = Null

\* C2: cursorIndex of an OrderedMultiSelect is an index into the displayed
\* sequence whenever that sequence is not empty.
C2_CursorInRange ==
    Len(buildDisplayItems(oms)) > 0
        => (0 <= oms.cursorIndex /\ oms.cursorIndex < Len(buildDisplayItems(oms)))

\* C3: activating, in Browsing, an item with no submenu and a non-empty values
\* list sets its currentValue to the value after the current one (the first
\* value when the current one is not in the list), invokes onChange once with
\* (id, new value), and leaves the list in Browsing with selectedIndex and
\* the other items unchanged.
C3_CycleActivation ==
    [][(/\ lastOp'.op = "handleInput" /\ IsActivation(lastOp'.data)
        /\ Mode = "Browsing" /\ IsCycling(Target))
       => LET newValue == NextInCycle(items[Target].values, items[Target].currentValue) IN
          /\ items' = [items EXCEPT ![Target].currentValue = newValue]
          /\ calls' = <<OnChange(items[Target].id, newValue)>>
          /\ InSubState("Browsing")'
          /\ selectedIndex' = selectedIndex]_vars

\* the third of three values was current and the activation wrapped to the first
C3_Witness ==
    /\ lastOp.op = "handleInput" /\ lastOp.mode = "Browsing" /\ lastOp.data = " "
    /\ items[2].values = <<Str("a"), Str("b"), Str("c")>>
    /\ run # Null /\ run[1].start = Str("c") /\ run[1].count = 1
    /\ calls = <<OnChange("ext::mode", Str("a"))>>
    /\ items[2].currentValue = Str("a")
    /\ selectedIndex = 1

\* C4, as claimed: activating a cycling item length(values) times in a row
\* returns currentValue to the value it had before, for any values list and
\* any currentValue.
C4_CycleClosureAny ==
    (run # Null /\ run[1].count = Len(items[run[1].item].values))
        => items[run[1].item].currentValue = run[1].start

\* C4, amended: the same when the values list has no repeated entry and the
\* currentValue before the first activation is one of the values.
C4_CycleClosure ==
    (/\ run # Null /\ run[1].count = Len(items[run[1].item].values)
     /\ NoDuplicates(items[run[1].item].values)
     /\ Includes(items[run[1].item].values, run[1].start))
        => items[run[1].item].currentValue = run[1].start

\* three distinct values, three activations in a row
C4_Witness ==
    /\ run # Null /\ run[1].count = 3 /\ run[1].start = Str("b")
    /\ items[run[1].item].values = <<Str("a"), Str("b"), Str("c")>>
    /\ items[run[1].item].currentValue = Str("b")

\* the enter that commits an edit during which characters, and nothing else,
\* were typed
TypedCommit ==
    /\ lastOp.op = "handleInput" /\ lastOp.mode = "Editing"
    /\ MatchesKey(lastOp.data, "enter")
    /\ typed # Null /\ typed[1].text # <<>> /\ lastOp.target > 0

\* C5, as claimed: activating a free-text item, typing characters and pressing
\* enter leaves currentValue equal to the typed text, which onChange receives,
\* for every prior currentValue.
C5_RoundTripAnyPrior ==
    TypedCommit
        => /\ items[lastOp.target].currentValue = typed[1].text
           /\ calls = <<OnChange(items[lastOp.target].id, typed[1].text)>>

\* C5, amended: the same for a free-text item whose currentValue was the empty
\* string when it was activated.
C5_RoundTripFromEmpty ==
    (TypedCommit /\ typed[1].prefill = <<>>)
        => /\ items[lastOp.target].currentValue = typed[1].text
           /\ calls = <<OnChange(items[lastOp.target].id, typed[1].text)>>

\* "a " was typed into the empty editor of the free-text item and committed
C5_Witness ==
    /\ TypedCommit /\ typed[1].prefill = <<>> /\ typed[1].text = <<"a", " ">>
    /\ items[lastOp.target].id = "ext::name"
    /\ items[lastOp.target].currentValue = <<"a", " ">>

\* C6: activating a header row never enters Editing, never changes the
\* header's currentValue and never invokes onChange for it.
C6_HeaderNotEditable ==
    [][(/\ lastOp'.op = "handleInput" /\ IsActivation(lastOp'.data)
        /\ Mode = "Browsing" /\ Target > 0 /\ IsHeaderId(items[Target].id))
       => /\ editingInput' = Null
          /\ items'[Target].currentValue = items[Target].currentValue
          /\ calls' = <<>>]_vars

\* C7: in Editing, enter sets the edited item's currentValue to the editor's
\* value, invokes onChange once with (id, value) and returns to Browsing with
\* no editor.
C7_EnterCommits ==
    [][(lastOp'.op = "handleInput" /\ Mode = "Editing" /\ MatchesKey(lastOp'.data, "enter"))
       => /\ DisplayedAt(editingItemIndex) # Null
          /\ LET k == DisplayedAt(editingItemIndex)[1]
                 v == InputGetValue(editingInput[1])
             IN  /\ items' = [items EXCEPT ![k].currentValue = v]
                 /\ calls' = <<OnChange(items[k].id, v)>>
          /\ editingInput' = Null /\ editingItemIndex' = NullIndex
          /\ InSubState("Browsing")']_vars

\* a space was typed in front of the value "a" and the edit committed
C7_Witness ==
    /\ lastOp.op = "handleInput" /\ lastOp.mode = "Editing" /\ lastOp.data = "enter"
    /\ snap # Null /\ snap[1].dirty /\ snap[1].cv[2] = <<"a">>
    /\ lastOp.target = 2
    /\ calls = <<OnChange("ext::name", <<" ", "a">>)>>
    /\ items[2].currentValue = <<" ", "a">>
    /\ InSubState("Browsing")

\* C8: in Editing, escape returns to Browsing, invokes no callback, and leaves
\* every currentValue and selectedIndex as they were when editing started,
\* whatever was typed in between.
C8_EscapeDiscards ==
    (/\ lastOp.op = "handleInput" /\ lastOp.mode = "Editing"
     /\ MatchesKey(lastOp.data, "escape") /\ snap # Null)
        => /\ InSubState("Browsing")
           /\ editingInput = Null /\ editingItemIndex = NullIndex
           /\ calls = <<>>
           /\ CurrentValues = snap[1].cv
           /\ selectedIndex = snap[1].sel

\* two characters were typed over an empty value and then discarded
C8_Witness ==
    /\ lastOp.op = "handleInput" /\ lastOp.mode = "Editing" /\ lastOp.data = "escape"
    /\ snap # Null /\ snap[1].dirty
    /\ typed # Null /\ typed[1].text = <<" ", "a">>
    /\ lastOp.target = 2 /\ items[2].currentValue = <<>>

\* C9: when the child of an open submenu calls done with a defined value, the
\* originating item's currentValue becomes that value, onChange is invoked
\* once with (id, value), the submenu is closed, selectedIndex is the index the
\* submenu was opened from, and the list is in Browsing.
C9_SubmenuValue ==
    [][(/\ lastOp'.op = "handleInput" /\ Mode = "SubmenuActive"
        /\ OMSHandleInput(submenuComponent[1], lastOp'.data).done # NotDone
        /\ OMSHandleInput(submenuComponent[1], lastOp'.data).done[1].defined)
       => /\ DisplayedAt(submenuItemIndex) # Null
          /\ LET k == DisplayedAt(submenuItemIndex)[1]
                 v == OMSHandleInput(submenuComponent[1], lastOp'.data).done[1].value
             IN  /\ items' = [items EXCEPT ![k].currentValue = v]
                 /\ calls' = <<OnChange(items[k].id, v)>>
          /\ submenuComponent' = Null
          /\ selectedIndex' = submenuItemIndex
          /\ snap # Null => selectedIndex' = snap[1].sel
          /\ InSubState("Browsing")']_vars

\* the only selected option was toggled off and the empty string confirmed
C9_Witness ==
    /\ lastOp.op = "handleInput" /\ lastOp.mode = "SubmenuActive" /\ lastOp.data = "enter"
    /\ snap # Null /\ snap[1].dirty /\ snap[1].cv[3] = Str("a") /\ snap[1].sel = 2
    /\ calls = <<OnChange("ext::order", <<>>)>>
    /\ items[3].currentValue = <<>>
    /\ selectedIndex = 2
    /\ InSubState("Browsing")

\* C10: when the child of an open submenu calls done with no value, the
\* submenu is closed, onChange is not invoked, every currentValue is what it
\* was when the submenu was opened, whatever was toggled or reordered in the
\* child, selectedIndex is the originating index and the list is in Browsing.
C10_SubmenuCancelled ==
    [][(/\ lastOp'.op = "handleInput" /\ Mode = "SubmenuActive"
        /\ OMSHandleInput(submenuComponent[1], lastOp'.data).done = DoneUndefined)
       => /\ calls' = <<>>
          /\ items' = items
          /\ snap # Null => (CurrentValues' = snap[1].cv /\ selectedIndex' = snap[1].sel)
          /\ submenuComponent' = Null
          /\ selectedIndex' = submenuItemIndex
          /\ InSubState("Browsing")']_vars

\* the child was cancelled after its selection had been changed
C10_Witness ==
    /\ lastOp.op = "handleInput" /\ lastOp.mode = "SubmenuActive" /\ lastOp.data = "escape"
    /\ snap # Null /\ snap[1].dirty /\ snap[1].sel = 2
    /\ CurrentValues = snap[1].cv
    /\ calls = <<>>
    /\ InSubState("Browsing")

-----------------------------------------------------------------------------
(* Properties of OrderedMultiSelect *)

IsOptionId(options, id) == \E i \in 1..Len(options) : options[i].id = id

OptionWithId(options, id) == options[CHOOSE i \in 1..Len(options) : options[i].id = id]

\* the last operation was the token data given to the stand-alone widget
OMSGiven(data) == lastOp.op = "omsInput" /\ lastOp.data = data

\* C11: selected of an OrderedMultiSelect contains no id more than once, for
\* every initial value string and after every sequence of tokens.
C11_NoDuplicateIds == NoDuplicates(oms.selected)

\* C12, as claimed: every id in selected is the id of some option, for every
\* initial value string and after every sequence of tokens.
C12_SelectedAreOptionIds ==
    \A i \in 1..Len(oms.selected) : IsOptionId(oms.options, oms.selected[i])

\* C12, amended: every id in selected is the id of some option or an id the
\* initial value already contained.
C12_SelectedFromOptionsOrSeed ==
    \A i \in 1..Len(oms.selected) :
        \/ IsOptionId(oms.options, oms.selected[i])
        \/ Includes(omsHist.seed, oms.selected[i])

\* an option was toggled on behind an unknown id of the initial value
C12_Witness ==
    /\ OMSGiven(" ")
    /\ omsHist.seed = <<Str("x")>>
    /\ oms.options = ABOptions
    /\ oms.selected = <<Str("x"), Str("b")>>

\* C13: a space acts only on the option under the cursor: a selected option's
\* id is removed from selected, the other ids keeping their order; an
\* unselected option's id is appended to selected.  From an empty initial
\* value, and as long as nothing is reordered, selected lists the ids in the
\* order they were toggled on, and a confirm outputs them in that order.
C13_Toggle ==
    /\ [][(lastOp'.op = "omsInput" /\ lastOp'.data = " " /\ OMSRow # Null)
          => LET id == OMSRow[1].option.id IN
             /\ oms'.options = oms.options
             /\ oms'.cursorIndex = oms.cursorIndex
             /\ omsDone' = NotDone
             /\ IF Includes(oms.selected, id)
                THEN /\ ~Includes(oms'.selected, id)
                     /\ oms'.selected = SelectSeq(oms.selected, LAMBDA s : s # id)
                ELSE /\ oms'.selected = Append(oms.selected, id)
                     /\ oms'.selected[Len(oms'.selected)] = id]_vars
    /\ [](omsHist.order # Null
          => /\ oms.selected = omsHist.order[1]
             /\ (OMSGiven("enter") /\ oms.options # <<>>)
                    => omsDone = DoneWith(Join(omsHist.order[1], ",")))

\* options a, b, c and an empty value: b toggled on, then a, then confirm
C13_Witness ==
    /\ OMSGiven("enter")
    /\ Len(oms.options) = 3
    /\ omsHist.seed = <<>>
    /\ omsHist.order = Some(<<Str("b"), Str("a")>>)
    /\ omsDone = DoneWith(<<"b", ",", "a">>)

\* C14: an option toggled off and then, after navigation only, toggled on
\* again is the last element of selected, and the other ids are in the order
\* they had before it was toggled off.
C14_OffThenOn ==
    (omsHist.off # Null /\ omsHist.off[1].again)
        => LET id == omsHist.off[1].id IN
           /\ oms.selected # <<>>
           /\ oms.selected[Len(oms.selected)] = id
           /\ SubSeq(oms.selected, 1, Len(oms.selected) - 1)
                 = SelectSeq(omsHist.off[1].before, LAMBDA s : s # id)

\* a was first of a, b; it was toggled off and on again and is now last
C14_Witness ==
    /\ OMSGiven(" ")
    /\ omsHist.off # Null /\ omsHist.off[1].again
    /\ omsHist.off[1].id = Str("a")
    /\ omsHist.off[1].before = <<Str("a"), Str("b")>>
    /\ oms.selected = <<Str("b"), Str("a")>>

\* the 1-based place of id in seq, 0 when it is absent
PlaceOf(seq, id) == IndexOf(seq, id) + 1

\* C15: shift+up / shift+down with the cursor on a selected option swaps the
\* option's id with its predecessor / successor in selected and changes
\* nothing else in selected; when the id is first (for up) or last (for down)
\* in selected, or the option is not selected, selected and cursorIndex are
\* unchanged.
C15_Reorder ==
    [][(lastOp'.op = "omsInput" /\ IsReorder(lastOp'.data))
       => LET id == OMSRow[1].option.id
              k  == PlaceOf(oms.selected, id)
              n  == IF lastOp'.data = "shift+up" THEN k - 1 ELSE k + 1
          IN
          /\ oms'.options = oms.options
          /\ omsDone' = NotDone
          /\ IF k > 0 /\ n >= 1 /\ n <= Len(oms.selected)
             THEN /\ oms'.selected[n] = id
                  /\ oms'.selected[k] = oms.selected[n]
                  /\ Len(oms'.selected) = Len(oms.selected)
                  /\ \A i \in 1..Len(oms.selected) :
                        i \notin {k, n} => oms'.selected[i] = oms.selected[i]
             ELSE /\ oms'.selected = oms.selected
                  /\ oms'.cursorIndex = oms.cursorIndex]_vars

\* b, second of a, b, c, was moved down
C15_Witness ==
    /\ OMSGiven("shift+down")
    /\ omsHist.prev # Null
    /\ omsHist.prev[1].id = Str("b")
    /\ omsHist.prev[1].selected = <<Str("a"), Str("b"), Str("c")>>
    /\ oms.selected = <<Str("a"), Str("c"), Str("b")>>

\* C16: after a reorder token that changes the widget, the option displayed at
\* cursorIndex is the option that was under the cursor before the token.
C16_CursorFollows ==
    [][(lastOp'.op = "omsInput" /\ IsReorder(lastOp'.data) /\ oms' # oms)
       => LET after == ItemAtCursor(oms', buildDisplayItems(oms')) IN
          /\ after # Null
          /\ after[1].option = OMSRow[1].option]_vars

\* C17: a reorder that moves the selected option under the cursor, followed by
\* the opposite reorder, restores selected and cursorIndex.
C17_MoveInverse ==
    [][(/\ lastOp'.op = "omsInput" /\ omsHist.prev # Null
        /\ \/ (lastOp.data = "shift+up" /\ lastOp'.data = "shift+down")
           \/ (lastOp.data = "shift+down" /\ lastOp'.data = "shift+up"))
       => /\ oms'.selected = omsHist.prev[1].selected
          /\ oms'.cursorIndex = omsHist.prev[1].cursorIndex]_vars

\* C18, as claimed: a confirm token given in any state calls done once with
\* the ids of selected joined by commas.
C18_ConfirmAnyState ==
    [][(lastOp'.op = "omsInput" /\ KbMatches(lastOp'.data, "selectConfirm"))
       => omsDone' = DoneWith(Join(oms.selected, ","))]_vars

\* C18, amended: the same when the widget has at least one option; the string
\* is empty when nothing is selected and splits back into the ids otherwise.
C18_Confirm ==
    [][(/\ lastOp'.op = "omsInput" /\ KbMatches(lastOp'.data, "selectConfirm")
        /\ oms.options # <<>>)
       => /\ omsDone' # NotDone /\ omsDone'[1].defined
          /\ omsDone'[1].value = Join(oms.selected, ",")
          /\ oms.selected = <<>> => omsDone'[1].value = <<>>
          /\ oms.selected # <<>> => Split(omsDone'[1].value, ",") = oms.selected
          /\ oms' = oms]_vars

\* the only selected option was toggled off and the empty string confirmed
C18_Witness ==
    /\ OMSGiven("enter")
    /\ oms.options # <<>>
    /\ omsHist.seed = <<Str("a")>>
    /\ oms.selected = <<>>
    /\ omsDone = DoneWith(<<>>)

\* the ids of seq that the initial value contained and that match no option
\* or whose option was never toggled or moved by a reorder
Untouched(seq) ==
    SelectSeq(seq, LAMBDA id : /\ Includes(omsHist.seed, id)
                               /\ \/ ~IsOptionId(oms.options, id)
                                  \/ id \notin omsHist.touched)

\* C19: the confirmed string holds every id of the initial value that matches
\* no option, and these ids together with the ids of the options never toggled
\* or reordered are in the order the initial value had them.
C19_UnknownIdsKept ==
    (OMSGiven("enter") /\ omsDone # NotDone /\ omsDone[1].defined)
        => LET out == SelectSeq(Split(omsDone[1].value, ","), NonEmpty) IN
           /\ \A i \in 1..Len(omsHist.seed) :
                 ~IsOptionId(oms.options, omsHist.seed[i]) => Includes(out, omsHist.seed[i])
           /\ Untouched(out) = Untouched(omsHist.seed)

\* value "x,a": b was toggled on and moved before a; "x,b,a" is confirmed
C19_Witness ==
    /\ OMSGiven("enter")
    /\ omsHist.seed = <<Str("x"), Str("a")>>
    /\ omsHist.touched = {}
    /\ omsDone = DoneWith(<<"x", ",", "b", ",", "a">>)

\* the places in selected of the ids that match an option
KnownPlaces(w) == {i \in 1..Len(w.selected) : IsOptionId(w.options, w.selected[i])}

\* the n-th smallest element of a set of numbers
NthOf(S, n) == CHOOSE k \in S : Cardinality({j \in S : j <= k}) = n

UnselectedOptions(w) == SelectSeq(w.options, LAMBDA o : ~Includes(w.selected, o.id))

UnselectedRows(w) ==
    [n \in 1..Len(UnselectedOptions(w)) |->
        [option |-> UnselectedOptions(w)[n], selected |-> FALSE, position |-> 0]]

\* C20, as claimed: the displayed sequence is the selected options in the
\* order of selected, the n-th annotated with position n, followed by the
\* unselected options in declaration order.
C20_DisplayNumbered ==
    buildDisplayItems(oms) =
        [n \in 1..Cardinality(KnownPlaces(oms)) |->
            [option   |-> OptionWithId(oms.options, oms.selected[NthOf(KnownPlaces(oms), n)]),
             selected |-> TRUE,
             position |-> n]]
        \o UnselectedRows(oms)

\* C20, amended: the same with each selected option annotated with the
\* 1-based place in selected of the entry it is displayed for.
C20_Display ==
    buildDisplayItems(oms) =
        [n \in 1..Cardinality(KnownPlaces(oms)) |->
            [option   |-> OptionWithId(oms.options, oms.selected[NthOf(KnownPlaces(oms), n)]),
             selected |-> TRUE,
             position |-> NthOf(KnownPlaces(oms), n)]]
        \o UnselectedRows(oms)

\* value "x": b was toggled on and is displayed first, annotated 2, before a
C20_Witness ==
    /\ OMSGiven(" ")
    /\ oms.selected = <<Str("x"), Str("b")>>
    /\ buildDisplayItems(oms) =
          << [option |-> Option(Str("b")), selected |-> TRUE, position |-> 2],
             [option |-> Option(Str("a")), selected |-> FALSE, position |-> 0] >>

-----------------------------------------------------------------------------
(* Properties of the callbacks, the search box and updateValue *)

\* the callbacks of the last operation that are invocations of cb
CallsOf(cs, cb) == SelectSeq(cs, LAMBDA c : c.cb = cb)

Query == IF searchInput = Null THEN <<>> ELSE InputGetValue(searchInput[1])

IsNavigationKey(data) == KbMatches(data, "selectUp") \/ KbMatches(data, "selectDown")

\* a token that, in Browsing, falls through to the search branch
IsSearchToken(data) ==
    ~IsNavigationKey(data) /\ ~IsActivation(data) /\ ~KbMatches(data, "selectCancel")

\* C21: a token causes at most one onChange, invoked while the token is
\* processed, and only when the token activates a cycling item, is the enter
\* that commits an edit, or makes the submenu child complete with a value;
\* updateValue causes none.
C21_OneOnChangePerToken ==
    [][/\ Len(CallsOf(calls', "onChange")) <= 1
       /\ Len(CallsOf(calls', "onChange")) = 1
            => /\ lastOp'.op = "handleInput"
               /\ \/ /\ Mode = "Browsing" /\ IsActivation(lastOp'.data)
                     /\ IsCycling(Target)
                  \/ /\ Mode = "Editing" /\ MatchesKey(lastOp'.data, "enter")
                  \/ /\ Mode = "SubmenuActive"
                     /\ OMSHandleInput(submenuComponent[1], lastOp'.data).done # NotDone
                     /\ OMSHandleInput(submenuComponent[1], lastOp'.data).done[1].defined]_vars

\* the child of the submenu completed with "b,a", reported once
C21_Witness ==
    /\ lastOp.op = "handleInput" /\ lastOp.mode = "SubmenuActive"
    /\ calls = <<OnChange("ext::order", <<"b", ",", "a">>)>>

\* C22: onCancel is invoked only for a selectCancel token received in
\* Browsing, never for an escape in Editing or while a submenu is open; a
\* selectCancel in Browsing invokes onCancel once, invokes no onChange and
\* changes no currentValue.
C22_CancelOnlyInBrowsing ==
    [][/\ CallsOf(calls', "onCancel") # <<>>
            => /\ lastOp'.op = "handleInput" /\ Mode = "Browsing"
               /\ KbMatches(lastOp'.data, "selectCancel")
       /\ (/\ lastOp'.op = "handleInput" /\ Mode = "Browsing"
           /\ KbMatches(lastOp'.data, "selectCancel"))
            => /\ calls' = <<OnCancel>>
               /\ CurrentValues' = CurrentValues]_vars

\* escape in Browsing, with a query typed and an item edited before
C22_Witness ==
    /\ lastOp.op = "handleInput" /\ lastOp.mode = "Browsing" /\ lastOp.data = "escape"
    /\ calls = <<OnCancel>>
    /\ Query # <<>>
    /\ InSubState("Browsing")

\* C23, as claimed: with search enabled, every Browsing token that is not
\* navigation, activation or cancel is appended to the query with its spaces
\* removed; then filteredItems is the fuzzy filter of items for the new query
\* and selectedIndex is 0; the query never holds a space.
C23_SearchAppendsAny ==
    [][(/\ lastOp'.op = "handleInput" /\ Mode = "Browsing" /\ searchEnabled
        /\ IsSearchToken(lastOp'.data))
       => /\ Query' = Query \o Sanitized(lastOp'.data)
          /\ filteredItems' = fuzzyFilter(items, Query')
          /\ selectedIndex' = 0
          /\ ~Includes(Query', " ")]_vars

\* C23, amended: a token of printable text is appended with its spaces
\* removed, any other such token is handed to the search editor as it is (a
\* backspace deletes the last character); in both cases filteredItems becomes
\* the fuzzy filter of items for the new query and selectedIndex 0.  A token
\* made of spaces only changes nothing.  The query never holds a space.
C23_Search ==
    [][(/\ lastOp'.op = "handleInput" /\ Mode = "Browsing" /\ searchEnabled
        /\ IsSearchToken(lastOp'.data))
       => LET data == lastOp'.data IN
          /\ data \in Printable /\ Sanitized(data) # <<>>
                => Query' = Query \o Sanitized(data)
          /\ data \in Printable /\ Sanitized(data) = <<>>
                => UNCHANGED <<searchInput, filteredItems, selectedIndex>>
          /\ data = "backspace"
                => Query' = SubSeq(Query, 1, Len(Query) - 1)
          /\ data \notin Printable \cup {"backspace"} => Query' = Query
          /\ ~(data \in Printable /\ Sanitized(data) = <<>>)
                => /\ filteredItems' = fuzzyFilter(items, Query')
                   /\ selectedIndex' = 0
          /\ ~Includes(Query', " ")
          /\ calls' = <<>> /\ items' = items /\ InSubState("Browsing")']_vars

\* "a " was pasted into the empty query with the last row selected: the query
\* is "a", two of the three labels match and the first is selected
C23_Witness ==
    /\ lastOp.op = "handleInput" /\ lastOp.mode = "Browsing" /\ lastOp.data = "a "
    /\ lastOp.target = 3
    /\ Query = <<"a">>
    /\ selectedIndex = 0
    /\ filteredItems = <<1, 3>>

\* C24: updateValue(id, value) sets the currentValue of the item with that id
\* and nothing else: no callback, selectedIndex, query, filteredItems and the
\* sub-state are unchanged; with no such item the whole state is unchanged.
C24_UpdateValueFrame ==
    [][lastOp'.op = "updateValue"
       => /\ \E newValue \in UpdateValues :
                items' = [k \in 1..Len(items) |->
                            IF FindItem(lastOp'.data) = <<k>>
                            THEN [items[k] EXCEPT !.currentValue = newValue]
                            ELSE items[k]]
          /\ FindItem(lastOp'.data) = Null => items' = items
          /\ calls' = <<>>
          /\ UNCHANGED <<selectedIndex, searchInput, filteredItems, searchEnabled,
                         editingInput, editingItemIndex, submenuComponent,
                         submenuItemIndex>>
          /\ Mode' = Mode]_vars

\* the free-text item was given the value "a" while its editor was open
C24_Witness ==
    /\ lastOp.op = "updateValue" /\ lastOp.data = "ext::name" /\ lastOp.mode = "Editing"
    /\ items[2].currentValue = Str("a")
    /\ editingInput # Null /\ InputGetValue(editingInput[1]) = <<>>
    /\ calls = <<>>

\* C25: a token that matches no recognized action is ignored in Browsing, with
\* search enabled or not: selectedIndex, the query, filteredItems, every
\* currentValue and the sub-state are unchanged and no callback is invoked.
C25_UnrecognizedIgnored ==
    [][(lastOp'.op = "handleInput" /\ Mode = "Browsing" /\ lastOp'.data = "f5")
       => /\ selectedIndex' = selectedIndex
          /\ Query' = Query
          /\ filteredItems' = filteredItems
          /\ CurrentValues' = CurrentValues
          /\ InSubState("Browsing")'
          /\ calls' = <<>>]_vars

\* C26: a selectCancel token makes the OrderedMultiSelect complete with no
\* value in every state, with no option at all too, and reports nothing of
\* the toggles and reorders made before.
C26_CancelNoValue ==
    [][(lastOp'.op = "omsInput" /\ KbMatches(lastOp'.data, "selectCancel"))
       => /\ omsDone' = DoneUndefined
          /\ oms' = oms]_vars

\* cancel after the selection had been changed
C26_Witness ==
    /\ OMSGiven("escape")
    /\ omsDone = DoneUndefined
    /\ oms.selected # omsHist.seed
    /\ omsHist.touched # {}


-----------------------------------------------------------------------------
(* Properties of the settings store *)

StorePairs == ExtNames \X SettingIds

\* the file holds an entry for the setting of the extension
HasStoredEntry(f, extensionName, settingId) ==
    LET settings == loadSettingsFile(f) IN
    HasOwn(settings, extensionName) /\ HasOwn(settings[extensionName], settingId)

\* C29: values written through the typed store round-trip through their
\* string encoding: a get(key, fallback) that follows set(key, v) with no
\* write in between returns v, for strings, enum members, numbers and
\* booleans
C29_RoundTrip ==
    [][(io.op = "store.set" /\ io'.op = "store.get" /\ io'.id = io.id)
          => StrictEquals(io'.result, io.arg)]_vars

\* C30: setSetting(ext, id, v) changes exactly one entry: afterwards
\* getSetting(ext, id, d) returns v for every default d and every other
\* pair reads as before; and getSetting returns the default exactly when
\* the pair has no stored entry
C30_SetChangesOneEntry ==
    [][io'.op = "setSetting" =>
          \A pair \in StorePairs, d \in Defaults :
              IF pair = <<io'.ext, io'.id>>
              THEN StrictEquals(getSetting(file', pair[1], pair[2], d), io'.arg)
              ELSE StrictEquals(getSetting(file', pair[1], pair[2], d),
                                getSetting(file, pair[1], pair[2], d))]_vars

C30_DefaultIffNoEntry ==
    io.op = "getSetting" =>
        IF HasStoredEntry(file, io.ext, io.id)
        THEN StrictEquals(io.result, JsString(loadSettingsFile(file)[io.ext][io.id]))
        ELSE StrictEquals(io.result, io.arg)

C30_SetGet == C30_SetChangesOneEntry /\ [](C30_DefaultIffNoEntry)


-----------------------------------------------------------------------------
(* Properties of the registration of settings *)

\* the list on screen has the header row of the extension
HasHeaderRow(name) == \E i \in 1..Len(items) : items[i].id = "__header__" \o name

\* the scopes the registry holds settings of
RegistryNames ==
    IF registry = Null THEN {}
    ELSE {registry[1][i].name : i \in 1..Len(registry[1])}

\* the scopes that announced while the listener existed
AnnouncedSinceLoad == announced.heard \cup announced.documented

\* the scopes whose only announcements came before the listener existed
LostScopes == announced.early \ AnnouncedSinceLoad

\* C27: an announcement made before the settings extension attached its
\* listener is lost and never redelivered: a scope that has not announced
\* again since the listener exists is not in the registry and has no rows
\* in the list of /extension-settings, whatever else happened
C27_LostNotRedelivered ==
    \A name \in LostScopes : name \notin RegistryNames /\ ~HasHeaderRow(name)

\* the command has shown the list of another scope while a scope that
\* announced too early is still missing
C27_Witness ==
    /\ LostScopes # {}
    /\ io.op = "command" /\ io.result = ListShown
    /\ RegistryNames # {} /\ items # <<>>

\* C28: settings announced on pi-extension-settings:register, directly or
\* by the factory of createSettingsStoreFactory, after the settings
\* extension has loaded are in the registry, and are rows of the list when
\* /extension-settings is run
C28_DocumentedEventRecorded ==
    \A name \in announced.documented :
        /\ name \in RegistryNames
        /\ io.op = "command" => io.result = ListShown /\ HasHeaderRow(name)


-----------------------------------------------------------------------------
(* Properties of the selection, the open child and the committed item *)

\* C31: selectedIndex is an index into the displayed sequence whenever
\* that sequence is not empty, and a navigation token moves it by one,
\* wrapping around at either end, and not at all when nothing is displayed
C31_NavigationStep ==
    (lastOp'.op = "handleInput" /\ Mode = "Browsing" /\ IsNavigationKey(lastOp'.data))
        => LET n == Len(displayItems) IN
           /\ displayItems' = displayItems
           /\ IF n = 0 THEN selectedIndex' = selectedIndex
              ELSE IF KbMatches(lastOp'.data, "selectUp")
              THEN selectedIndex' = (selectedIndex + n - 1) % n
              ELSE selectedIndex' = (selectedIndex + 1) % n

C31_SelectedIndexInRange ==
    /\ [][C31_NavigationStep]_vars
    /\ [](Len(displayItems) > 0 => selectedIndex >= 0 /\ selectedIndex < Len(displayItems))

\* up from the first row of a filtered list wrapped to its last row
C31_Witness ==
    /\ lastOp.op = "handleInput" /\ lastOp.mode = "Browsing" /\ lastOp.data = "up"
    /\ searchEnabled /\ Query = <<"a">>
    /\ Len(displayItems) = 2 /\ selectedIndex = 1

\* C32: while a submenu is open every token goes to the child and the list
\* does not interpret it: until the child signals completion,
\* selectedIndex, the search query, filteredItems and every currentValue
\* stay as they are and neither onChange nor onCancel is called
C32_SubmenuGetsEveryToken ==
    [][(lastOp'.op = "handleInput" /\ Mode = "SubmenuActive")
          => /\ CallsOf(calls', "onCancel") = <<>>
             /\ submenuComponent' # Null
                   => /\ submenuComponent'[1] = OMSHandleInput(submenuComponent[1], lastOp'.data).w
                      /\ OMSHandleInput(submenuComponent[1], lastOp'.data).done = NotDone
                      /\ selectedIndex' = selectedIndex
                      /\ Query' = Query
                      /\ filteredItems' = filteredItems
                      /\ CurrentValues' = CurrentValues
                      /\ calls' = <<>>]_vars

\* down was handed to the open child, which moved its own cursor
C32_Witness ==
    /\ lastOp.op = "handleInput" /\ lastOp.mode = "SubmenuActive" /\ lastOp.data = "down"
    /\ submenuComponent # Null /\ submenuComponent[1].cursorIndex = 1
    /\ selectedIndex = 2 /\ calls = <<>>

\* the token commits: enter in the editor, or the completion of the child
\* with a value
IsCommit(data) ==
    \/ Mode = "Editing" /\ MatchesKey(data, "enter")
    \/ /\ Mode = "SubmenuActive"
       /\ OMSHandleInput(submenuComponent[1], data).done # NotDone
       /\ OMSHandleInput(submenuComponent[1], data).done[1].defined

\* C33: the item updated and reported on commit is the item that was
\* activated: whatever tokens and updateValue calls came between the
\* activation and the commit, onChange gets the id of the item that was at
\* selectedIndex when the editor or the submenu was opened and only that
\* item's currentValue changes; and the displayed sequence does not change
\* while the editor or the submenu is open
C33_CommitStep ==
    /\ Mode # "Browsing" => displayItems' = displayItems /\ activated > 0
    /\ (lastOp'.op = "handleInput" /\ IsCommit(lastOp'.data))
          => /\ calls' = <<OnChange(items[activated].id, items'[activated].currentValue)>>
             /\ \A k \in 1..Len(items) : k # activated => items'[k] = items[k]
    /\ (lastOp'.op = "handleInput" /\ Mode # "Browsing" /\ ~IsCommit(lastOp'.data))
          => calls' = <<>> /\ items' = items

C33_CommitsActivatedItem == [][C33_CommitStep]_vars

\* the submenu of the second row of a filtered list was confirmed: the
\* value went to the third item
C33_Witness ==
    /\ lastOp.op = "handleInput" /\ lastOp.mode = "SubmenuActive" /\ lastOp.data = "enter"
    /\ searchEnabled /\ Query = <<"a">> /\ selectedIndex = 1
    /\ filteredItems = <<1, 3>>
    /\ calls = <<OnChange("ext::order", <<"a">>)>>
    /\ items[3].currentValue = <<"a">>

-----------------------------------------------------------------------------
(* Properties of the displayed options, the visible window and the command *)

\* the rows the widget displays for the option
RowsOfOption(w, option) ==
    {n \in 1..Len(buildDisplayItems(w)) : buildDisplayItems(w)[n].option = option}

\* C34: every option appears exactly once in the displayed sequence of an
\* OrderedMultiSelect, for every initial value string and after every
\* sequence of tokens, so the number of rows is the number of options and
\* a toggle does not change it
C34_EachOptionOnce ==
    /\ \A i \in 1..Len(oms.options) :
          Cardinality(RowsOfOption(oms, oms.options[i])) = 1
    /\ Len(buildDisplayItems(oms)) = Len(oms.options)

\* C35: for every maxVisible >= 1, every non-empty displayed sequence of
\* length n and every selectedIndex in [0, n), the window
\* [startIndex, endIndex) that is rendered stays within bounds and holds
\* the selected row: 0 <= startIndex <= selectedIndex < endIndex <= n, and
\* it has min(maxVisible, n) rows
C35_WindowHoldsSelection ==
    window # Null =>
        LET w == window[1] IN
        /\ 0 <= w.startIndex
        /\ w.startIndex <= w.selectedIndex
        /\ w.selectedIndex < w.endIndex
        /\ w.endIndex <= w.n
        /\ w.endIndex - w.startIndex = Min(maxVisible, w.n)

\* the last of five rows rendered through a window of two rows
C35_Witness ==
    /\ lastOp.op = "render" /\ maxVisible = 2
    /\ window = Some([startIndex |-> 3, endIndex |-> 5, selectedIndex |-> 4, n |-> 5])

\* the extension and the setting each row of the command's list stands
\* for; a header row has no setting
RECURSIVE RowOwners(_)
RowOwners(entries) ==
    IF entries = <<>> THEN <<>>
    ELSE << [header |-> TRUE, ext |-> Head(entries).name, id |-> ""] >>
         \o [j \in 1..Len(Head(entries).settings) |->
                [header |-> FALSE, ext |-> Head(entries).name,
                 id |-> Head(entries).settings[j].id]]
         \o RowOwners(Tail(entries))

\* C36: a change the list of /extension-settings reports for the row of a
\* registered setting is written to the settings file under exactly the
\* extension name and the setting id of that row, also when the name or
\* the id contains "::"; a change reported for a header row writes
\* nothing, and so does a token that reports no change
C36_ChangeWrittenToItsSetting ==
    [][lastOp'.op = "commandInput" =>
          IF calls' = <<>> THEN file' = file
          ELSE LET owner == RowOwners(sortedExtensions(registry[1]))[lastOp'.target] IN
               IF owner.header THEN file' = file
               ELSE file' = setSetting(file, owner.ext, owner.id, calls'[1].value)]_vars

====
